---------------------------- MODULE Spec2Model ----------------------------
(***************************************************************************)
(* N-ary tree stores (FocusedNaryTree, SimpleArrayNaryTree,                *)
(* ArrayBasedNaryTree, HybridArrayNaryTree), their breadth-first re-layout *)
(* and height balancing, and the succinct (balanced-parenthesis) codec.    *)
(*                                                                         *)
(* The source indexes its arrays from 0; a TLA+ sequence is indexed from   *)
(* 1, so slot i of a vector v is v[i + 1] throughout (operator At).        *)
(***************************************************************************)
EXTENDS Integers, Sequences, FiniteSets, TLC

\* ------------------------------------------------------------------ bounds
MaxNodes == 5
MaxPayload == 2
MaxSlots == 6
MaxHybridNodes == 6
MaxChildren == 6
MaxArrayLevels == 3
MaxBits == 6
MaxData == 3
MaxFsNodes == 6
MaxEncodeNodes == 4
MaxIno == 8
MaxNames == 2
MaxBytes == 2
MaxBitOps == 2
MaxPyOps == 5
MaxRunPrefix == 3
MaxRunNodes == 103
MaxPointsPerNode == 2
MaxDepth == 2
MaxFinite == 16
MaxOctreePoints == 5
MaxQueries == 1
MaxThreads == 3
MaxInodeCalls == 4

\* ------------------------------------------------------- program constants
LAZY_BALANCE_THRESHOLD == 100
REBALANCE_EVERY == 100
INITIAL_CAPACITY == 1024
\* UINT32_MAX, written as the 32-bit pattern read as a signed number
INVALID_INDEX == -1
DefaultPayload == 0
INITIAL_CHILD_CAPACITY == 4
ENOMEM == 12
ENOSPC == 28
EINVAL == 22

Payloads == 1..MaxPayload

VARIABLES
    f_nodes,        \* FocusedNaryTree::nodes_
    f_root_index,   \* FocusedNaryTree::root_index_
    f_size,         \* FocusedNaryTree::size_
    f_ops,          \* FocusedNaryTree::operations_since_balance_
    f_call,         \* the last call made on the tree, with the state it found
    a_nodes,        \* ArrayBasedNaryTree::nodes_, slots 0 .. size() - 1
    a_spare,        \* what was written into the reserved storage past size()
    a_root_index,   \* ArrayBasedNaryTree::root_index_
    a_size,         \* ArrayBasedNaryTree::size_
    a_capacity,     \* ArrayBasedNaryTree::capacity_
    a_aborted,      \* the process was stopped by a checked operator[]
    a_call,         \* the last call made on the tree, with the state it found
    h_array_storage,        \* HybridArrayNaryTree::array_storage_
    h_array_levels,         \* HybridArrayNaryTree::array_levels_
    h_array_node_count,     \* HybridArrayNaryTree::array_node_count_
    h_pointer_roots,        \* HybridArrayNaryTree::pointer_roots_
    h_total_size,           \* HybridArrayNaryTree::total_size_
    h_max_children_per_node, \* HybridArrayNaryTree::max_children_per_node_
    h_call,         \* the last call made on the tree, with the state it found
    s_root_node,            \* succinct_sb_info::root_node
    s_structure_bits,       \* succinct_sb_info::structure_bits, bit by bit
    s_structure_bit_count,  \* succinct_sb_info::structure_bit_count
    s_data_array,           \* succinct_sb_info::data_array
    s_data_array_count,     \* succinct_sb_info::data_array_count
    s_is_encoded,           \* succinct_sb_info::is_encoded
    s_call,         \* the last call made on the superblock, with what it found
    s_nodes,        \* the succinct_node objects allocated and not freed
    s_next_ino,     \* succinct_sb_info::next_ino
    s_oops,         \* the kernel stopped on a faulting store
    b_bits,         \* a packed bit array (unsigned char *bits)
    b_ops,          \* calls of set_bit_in_array made on b_bits
    b_call,         \* the last call made on b_bits, with the bytes it found
    p_tree,         \* NaryTreeWrapper::tree, the payloads of its nodes
    p_state,        \* the NaryTreeObject: "none", "live" or "dead"
    p_acquired,     \* Py_INCREF calls the binding made, per payload object
    p_released,     \* Py_DECREF calls the binding made, per payload object
    p_ops,          \* calls made on the binding
    o_root,         \* the root Octree node, with the nodes it owns
    o_inserted,     \* the points Octree::insert returned true for, in order
    o_query_count,  \* Octree::query_count_ of the root
    o_call,         \* the last call made on the octree, with what it found
    i_lock,         \* succinct_sb_info::lock: the thread holding it, 0 if free
    i_next_ino,     \* succinct_sb_info::next_ino
    i_pc,           \* where each thread stands in succinct_get_inode
    i_ino,          \* inode->i_ino of the inode each thread is setting up
    i_handed        \* the i_ino values assigned, in lock-acquisition order

focusedVars == <<f_nodes, f_root_index, f_size, f_ops, f_call>>

arrayVars == <<a_nodes, a_spare, a_root_index, a_size, a_capacity, a_aborted,
               a_call>>

hybridVars == <<h_array_storage, h_array_levels, h_array_node_count,
                h_pointer_roots, h_total_size, h_max_children_per_node, h_call>>

sbVars == <<s_root_node, s_structure_bits, s_structure_bit_count,
            s_data_array, s_data_array_count, s_is_encoded, s_call>>

fsVars == <<s_nodes, s_next_ino, s_oops>>

bitVars == <<b_bits, b_ops, b_call>>

pyVars == <<p_tree, p_state, p_acquired, p_released, p_ops>>

octVars == <<o_root, o_inserted, o_query_count, o_call>>

inoVars == <<i_lock, i_next_ino, i_pc, i_ino, i_handed>>

vars == <<focusedVars, arrayVars, hybridVars, sbVars, fsVars, bitVars, pyVars,
          octVars, inoVars>>

\* ----------------------------------------------------------------- helpers
At(v, i) == v[i + 1]

Indices(v) == [k \in 1..Len(v) |-> k - 1]

InRange(v, i) == i >= 0 /\ i < Len(v)

Max(a, b) == IF a >= b THEN a ELSE b

RECURSIVE SeqMax(_)
SeqMax(s) == IF s = <<>> THEN 0 ELSE Max(Head(s), SeqMax(Tail(s)))

RECURSIVE SeqSum(_)
SeqSum(s) == IF s = <<>> THEN 0 ELSE Head(s) + SeqSum(Tail(s))

RECURSIVE Flatten(_)
Flatten(ss) == IF ss = <<>> THEN <<>> ELSE Head(ss) \o Flatten(Tail(ss))

\* ArrayNode(const T& d, int parent = -1)
ArrayNode(d, parent) ==
    [data |-> d, parent_index |-> parent, first_child_index |-> -1,
     child_count |-> 0, is_valid |-> TRUE]

\* ------------------------------------------------ the tree a store denotes
\* The children of slot p are the valid slots whose parent_index is p, in
\* index order: the relation both re-layouts rebuild the array from.
ChildrenOf(nodes, p) ==
    SelectSeq(Indices(nodes),
              LAMBDA i : At(nodes, i).is_valid /\ At(nodes, i).parent_index = p)

RECURSIVE TreePreorder(_, _)
TreePreorder(nodes, i) ==
    LET ch == ChildrenOf(nodes, i)
    IN  <<At(nodes, i).data>>
          \o Flatten([k \in 1..Len(ch) |-> TreePreorder(nodes, ch[k])])

RECURSIVE TreeBits(_, _)
TreeBits(nodes, i) ==
    LET ch == ChildrenOf(nodes, i)
    IN  <<1>> \o Flatten([k \in 1..Len(ch) |-> TreeBits(nodes, ch[k])]) \o <<0>>

RECURSIVE TreeDepth(_, _)
TreeDepth(nodes, i) ==
    LET ch == ChildrenOf(nodes, i)
    IN  1 + SeqMax([k \in 1..Len(ch) |-> TreeDepth(nodes, ch[k])])

\* ---------------------------------------------------------- FocusedNaryTree
\* FocusedNaryTree::rebalance_for_locality, the loop over the queue. An
\* iteration on a node without children only pops the queue: these
\* iterations are taken together, pending being the queue without them.
RECURSIVE rebalance_loop(_, _, _, _)
rebalance_loop(nodes, queue, new_nodes, old_to_new) ==
    LET HasChildren(i) == ChildrenOf(nodes, i) # <<>>
        pending == SelectSeq(queue, HasChildren)
    IN
    IF pending = <<>> THEN new_nodes
    ELSE
      LET current_old == Head(pending)
          current_new == old_to_new[current_old]
          children == ChildrenOf(nodes, current_old)
          new_index == Len(new_nodes)
      IN  IF children = <<>>
          THEN rebalance_loop(nodes, Tail(pending), new_nodes, old_to_new)
          ELSE
            LET linked == [new_nodes EXCEPT
                             ![current_new + 1].first_child_index = new_index,
                             ![current_new + 1].child_count = Len(children)]
                copies == [k \in 1..Len(children) |->
                             [At(nodes, children[k]) EXCEPT
                                !.parent_index = current_new]]
                mapped == [i \in DOMAIN old_to_new |->
                             IF \E k \in 1..Len(children) : children[k] = i
                             THEN new_index - 1
                                  + (CHOOSE k \in 1..Len(children) : children[k] = i)
                             ELSE old_to_new[i]]
            IN  rebalance_loop(nodes, Tail(pending) \o children,
                               linked \o copies, mapped)

rebalance_for_locality(nodes, root_index) ==
    IF nodes = <<>> THEN nodes
    ELSE rebalance_loop(
           nodes, <<root_index>>,
           <<[At(nodes, root_index) EXCEPT !.parent_index = -1,
                                           !.first_child_index = -1,
                                           !.child_count = 0]>>,
           [i \in 0..(Len(nodes) - 1) |-> IF i = root_index THEN 0 ELSE -1])

\* FocusedNaryTree::encode_succinct_preorder: the pair <<structure, data>>
\* the call appends
RECURSIVE encode_succinct_preorder(_, _)
encode_succinct_preorder(nodes, node_index) ==
    IF ~InRange(nodes, node_index) \/ ~At(nodes, node_index).is_valid
    THEN [structure |-> <<>>, data |-> <<>>]
    ELSE
      LET n == At(nodes, node_index)
          first_child == n.first_child_index
          sub == [k \in 1..n.child_count |->
                    IF first_child + (k - 1) < Len(nodes)
                    THEN encode_succinct_preorder(nodes, first_child + (k - 1))
                    ELSE [structure |-> <<>>, data |-> <<>>]]
      IN  [structure |-> <<1>>
                           \o Flatten([k \in 1..n.child_count |-> sub[k].structure])
                           \o <<0>>,
           data |-> <<n.data>>
                           \o Flatten([k \in 1..n.child_count |-> sub[k].data])]

\* FocusedNaryTree::encode_succinct
encode_succinct(nodes, root_index, size) ==
    IF root_index < 0
    THEN [structure_bits |-> <<>>, data_array |-> <<>>, node_count |-> 0]
    ELSE LET e == encode_succinct_preorder(nodes, root_index)
         IN  [structure_bits |-> e.structure, data_array |-> e.data,
              node_count |-> size]

\* FocusedNaryTree::for_each_breadth_first: the indices func is called on, in
\* order. The children of a visited node are taken to be the slots
\* first_child_index + i, i < child_count.
RECURSIVE for_each_breadth_first(_, _)
for_each_breadth_first(nodes, queue) ==
    IF queue = <<>> THEN <<>>
    ELSE LET current == Head(queue)
         IN  IF InRange(nodes, current) /\ At(nodes, current).is_valid
             THEN <<current>>
                    \o for_each_breadth_first(
                         nodes,
                         Tail(queue)
                           \o [k \in 1..At(nodes, current).child_count |->
                                 At(nodes, current).first_child_index + (k - 1)])
             ELSE for_each_breadth_first(nodes, Tail(queue))

\* ------------------------------------------------------- ArrayBasedNaryTree
\* ArrayNode(): a slot vector::resize value-initialises
DefaultNode ==
    [data |-> DefaultPayload, parent_index |-> -1, first_child_index |-> -1,
     child_count |-> 0, is_valid |-> FALSE]

\* nodes_.resize(n), n > nodes_.size()
resize(nodes, n) == nodes \o [k \in 1..(n - Len(nodes)) |-> DefaultNode]

\* the loop of add_child_internal that walks the valid slots from index i: the
\* number of them before the first invalid slot or the end of the vector
RECURSIVE ValidRun(_, _)
ValidRun(nodes, i) ==
    IF i < Len(nodes) /\ At(nodes, i).is_valid
    THEN 1 + ValidRun(nodes, i + 1)
    ELSE 0

\* ArrayBasedNaryTree::add_child_internal up to the rebalance trigger.
\* mem is the storage the call indexes: the vector's slots followed by what
\* an earlier call wrote at index size() of the reserved storage. Every
\* nodes_[i] of the source is an unchecked operator[], so i = size() reads
\* and writes that reserved slot.
\* overrun: the new node is assigned at index size() without a resize.
place_child(nodes, spare, parent_index, child_data) ==
    LET mem == nodes \o spare
        parent == At(mem, parent_index)
        first == parent.child_count = 0
        scan == first /\ parent_index + 1 < Len(nodes)
        insert_index ==
            IF first
            THEN IF scan
                 THEN parent_index + 1 + ValidRun(nodes, parent_index + 1)
                 ELSE Len(nodes)
            ELSE parent.first_child_index + parent.child_count
        grow == (first => scan) /\ insert_index >= Len(nodes)
        mem1 == IF grow THEN resize(nodes, insert_index + 1) ELSE mem
        size1 == IF grow THEN insert_index + 1 ELSE Len(nodes)
        mem2 == IF first
                THEN [mem1 EXCEPT
                        ![parent_index + 1].first_child_index = insert_index]
                ELSE mem1
        mem3 == IF insert_index < Len(mem2)
                THEN [mem2 EXCEPT
                        ![insert_index + 1] = ArrayNode(child_data, parent_index)]
                ELSE Append(mem2, ArrayNode(child_data, parent_index))
        mem4 == [mem3 EXCEPT ![parent_index + 1].child_count = @ + 1]
    IN  [nodes |-> SubSeq(mem4, 1, size1),
         spare |-> SubSeq(mem4, size1 + 1, Len(mem4)),
         insert_index |-> insert_index,
         overrun |-> insert_index >= size1]

\* ArrayBasedNaryTree::rebalance_breadth_first, the loop over bfs_queue. The
\* loop is cut once the new vector passes MaxSlots slots: the call is then
\* outside the model's bound.
RECURSIVE bfs_loop(_, _, _, _)
bfs_loop(nodes, bfs_queue, new_nodes, old_to_new_mapping) ==
    IF bfs_queue = <<>> \/ Len(new_nodes) > MaxSlots THEN new_nodes
    ELSE
      LET current_old_index == Head(bfs_queue)
          current_new_index == old_to_new_mapping[current_old_index]
          first_child == At(nodes, current_old_index).first_child_index
          new_index == Len(new_nodes)
      IN  IF first_child = -1
          THEN bfs_loop(nodes, Tail(bfs_queue), new_nodes, old_to_new_mapping)
          ELSE
            LET children ==
                  SelectSeq([k \in 1..At(nodes, current_old_index).child_count
                               |-> first_child + (k - 1)],
                            LAMBDA c : c < Len(nodes) /\ At(nodes, c).is_valid)
                linked == [new_nodes EXCEPT
                             ![current_new_index + 1].first_child_index = new_index]
                copies == [k \in 1..Len(children) |->
                             [At(nodes, children[k]) EXCEPT
                                !.parent_index = current_new_index]]
                mapped == [i \in DOMAIN old_to_new_mapping |->
                             IF \E k \in 1..Len(children) : children[k] = i
                             THEN new_index - 1
                                  + (CHOOSE k \in 1..Len(children) : children[k] = i)
                             ELSE old_to_new_mapping[i]]
            IN  bfs_loop(nodes, Tail(bfs_queue) \o children,
                         linked \o copies, mapped)

rebalance_breadth_first(nodes, root_index) ==
    IF root_index = -1 THEN nodes
    ELSE bfs_loop(
           nodes, <<root_index>>,
           <<[At(nodes, root_index) EXCEPT !.parent_index = -1]>>,
           [i \in 0..(Len(nodes) - 1) |-> IF i = root_index THEN 0 ELSE -1])

\* the search add_child_internal makes after its rebalance: the first valid
\* slot with the child's payload and the parent's old index, else the old
\* insert_index
index_after_rebalance(nodes, parent_index, child_data, insert_index) ==
    LET hits == SelectSeq(Indices(nodes),
                          LAMBDA i : /\ At(nodes, i).is_valid
                                     /\ At(nodes, i).data = child_data
                                     /\ At(nodes, i).parent_index = parent_index)
    IN  IF hits = <<>> THEN insert_index ELSE Head(hits)

ArrayInit ==
    /\ \E d \in Payloads : a_nodes = <<ArrayNode(d, -1)>>
    /\ a_spare = <<>>
    /\ a_root_index = 0
    /\ a_size = 1
    /\ a_capacity = INITIAL_CAPACITY
    /\ a_aborted = FALSE
    /\ a_call = [op |-> "new", parent_index |-> -1, nodes |-> <<>>,
                 root_index |-> -1, size |-> 0, error |-> FALSE, result |-> -1]

ArrayCalled(op, parent_index, result) ==
    a_call' = [op |-> op, parent_index |-> parent_index, nodes |-> a_nodes,
               root_index |-> a_root_index, size |-> a_size, error |-> FALSE,
               result |-> result]

\* The indices a caller holds: every slot of the vector (each was returned by
\* an add_child or is reached through root() and child()), and the index
\* size() when the last add_child returned it.
ArrayHandles == 0..(Len(a_nodes) + Len(a_spare) - 1)

\* the tail of add_child_internal: the count, the periodic rebalance and the
\* index returned
array_add_done(placed, parent_index, child_data) ==
    /\ a_size' = a_size + 1
    /\ a_capacity' = IF (a_size + 1) % REBALANCE_EVERY = 0
                     THEN Len(rebalance_breadth_first(placed.nodes, a_root_index))
                     ELSE IF Len(a_nodes) >= a_capacity THEN a_capacity * 2
                     ELSE a_capacity
    /\ IF (a_size + 1) % REBALANCE_EVERY = 0
       THEN LET new_nodes == rebalance_breadth_first(placed.nodes, a_root_index)
            IN  /\ a_nodes' = new_nodes
                /\ a_spare' = <<>>
                /\ a_root_index' = 0
                /\ ArrayCalled("add_child", parent_index,
                               index_after_rebalance(new_nodes, parent_index,
                                                     child_data,
                                                     placed.insert_index))
       ELSE /\ a_nodes' = placed.nodes
            /\ a_spare' = placed.spare
            /\ UNCHANGED a_root_index
            /\ ArrayCalled("add_child", parent_index, placed.insert_index)
    /\ UNCHANGED a_aborted
    /\ UNCHANGED <<focusedVars, hybridVars, sbVars, fsVars, bitVars, pyVars,
                   octVars, inoVars>>

\* NodeRef::add_child, the new node assigned to a slot of the vector
ArrayAddChild ==
    \E p \in ArrayHandles, d \in Payloads :
        LET placed == place_child(a_nodes, a_spare, p, d)
        IN  /\ ~a_aborted
            /\ a_size < MaxNodes
            /\ ~placed.overrun
            /\ array_add_done(placed, p, d)

\* NodeRef::add_child, the new node assigned at index size(): undefined
\* behaviour. An unchecked operator[] writes into the storage reserve()
\* obtained, and the vector's size() stays what it was.
ArrayAddChildOverrun ==
    \E p \in ArrayHandles, d \in Payloads :
        LET placed == place_child(a_nodes, a_spare, p, d)
        IN  /\ ~a_aborted
            /\ a_size < MaxNodes
            /\ placed.overrun
            /\ array_add_done(placed, p, d)

\* The same call under a checked operator[] (_GLIBCXX_ASSERTIONS): the
\* process is aborted.
ArrayAddChildAbort ==
    \E p \in ArrayHandles, d \in Payloads :
        /\ ~a_aborted
        /\ a_size < MaxNodes
        /\ place_child(a_nodes, a_spare, p, d).overrun
        /\ a_aborted' = TRUE
        /\ UNCHANGED <<a_nodes, a_spare, a_root_index, a_size, a_capacity,
                       a_call>>
        /\ UNCHANGED <<focusedVars, hybridVars, sbVars, fsVars, bitVars, pyVars,
                   octVars, inoVars>>

\* ArrayBasedNaryTree::optimize_layout
ArrayOptimizeLayout ==
    LET new_nodes == rebalance_breadth_first(a_nodes, a_root_index)
    IN  /\ ~a_aborted
        /\ Len(new_nodes) <= MaxSlots
        /\ a_nodes' = new_nodes
        /\ a_spare' = <<>>
        /\ a_root_index' = 0
        /\ a_capacity' = Len(new_nodes)
        /\ ArrayCalled("optimize_layout", -1, -1)
        /\ UNCHANGED <<a_size, a_aborted>>
        /\ UNCHANGED <<focusedVars, hybridVars, sbVars, fsVars, bitVars, pyVars,
                   octVars, inoVars>>

ArrayNext ==
    \/ ArrayAddChild
    \/ ArrayAddChildOverrun
    \/ ArrayAddChildAbort
    \/ ArrayOptimizeLayout

\* ------------------------------------------------------ HybridArrayNaryTree
Min(a, b) == IF a <= b THEN a ELSE b

\* a CacheOptimizedNode as add_child_to_array and build_array_level fill it
CacheOptimizedNode(data, parent_idx, depth) ==
    [data |-> data, parent_idx |-> parent_idx,
     first_child_idx |-> INVALID_INDEX, child_count |-> 0, depth |-> depth]

\* PointerNode(T data, parent, array_parent): children_ holds the payloads of
\* the leaves add_child_to_pointer_subtree hangs under a subtree root
PointerNode(data, array_parent_idx) ==
    [data |-> data, array_parent_idx |-> array_parent_idx, children |-> <<>>]

RECURSIVE capacity_loop(_, _, _, _, _)
capacity_loop(level, level_size, capacity, array_levels, max_children) ==
    IF level < array_levels
    THEN capacity_loop(level + 1, level_size * max_children,
                       capacity + level_size, array_levels, max_children)
    ELSE capacity

calculate_array_capacity(array_levels, max_children) ==
    capacity_loop(0, 1, 0, array_levels, max_children)

\* find_or_create_pointer_subtree: the position in pointer_roots_ of the
\* subtree of this array node, 0 when there is none yet
find_pointer_subtree(pointer_roots, array_parent_idx) ==
    LET hits == SelectSeq([i \in 1..Len(pointer_roots) |-> i],
                          LAMBDA i : pointer_roots[i].array_parent_idx
                                       = array_parent_idx)
    IN  IF hits = <<>> THEN 0 ELSE Head(hits)

\* collect_pointer_subtree_data, reading children_[i] as the child it owns
collect_pointer_subtree_data(node) == <<node.data>> \o node.children

\* the inner loop of build_array_level: the children of one parent
RECURSIVE build_children(_, _, _, _, _, _)
build_children(storage, data, data_idx, parent_idx, child, children_to_add) ==
    IF child < children_to_add /\ data_idx < Len(data)
    THEN build_children(
           Append(storage,
                  CacheOptimizedNode(At(data, data_idx), parent_idx,
                                     At(storage, parent_idx).depth + 1)),
           data, data_idx + 1, parent_idx, child + 1, children_to_add)
    ELSE [storage |-> storage, data_idx |-> data_idx, added |-> child]

\* the outer loop of build_array_level: the parents of the previous level
RECURSIVE build_parents(_, _, _, _, _, _, _, _, _)
build_parents(storage, data, data_idx, remaining, parent_level_start, parent_offset, parent_level_size, level_size, max_children) ==
    LET parent_idx == parent_level_start + parent_offset
        children_to_add == Min(remaining, max_children)
    IN  IF parent_offset < parent_level_size /\ remaining > 0
           /\ children_to_add # 0
        THEN LET linked == [storage EXCEPT
                              ![parent_idx + 1].first_child_idx = Len(storage),
                              ![parent_idx + 1].child_count = children_to_add]
                 built == build_children(linked, data, data_idx, parent_idx,
                                         0, children_to_add)
             IN  build_parents(built.storage, data, built.data_idx,
                               remaining - built.added, parent_level_start,
                               parent_offset + 1, parent_level_size,
                               level_size + built.added, max_children)
        ELSE [storage |-> storage, data_idx |-> data_idx,
              remaining |-> remaining, level_size |-> level_size]

RECURSIVE build_array_level(_, _, _, _, _, _, _, _)
build_array_level(storage, data, data_idx, remaining, parent_level_start, parent_level_size, array_levels, max_children) ==
    IF \/ remaining = 0
       \/ Len(storage) + remaining
            > calculate_array_capacity(array_levels, max_children)
    THEN storage
    ELSE
      LET level_start == Len(storage)
          level == build_parents(storage, data, data_idx, remaining,
                                 parent_level_start, 0, parent_level_size,
                                 0, max_children)
      IN  IF /\ level.level_size > 0
             /\ level.remaining > 0
             /\ At(level.storage, level_start).depth < array_levels - 1
          THEN build_array_level(level.storage, data, level.data_idx,
                                 level.remaining, level_start,
                                 level.level_size, array_levels, max_children)
          ELSE level.storage

build_balanced_array_portion(data, start, count, array_levels, max_children) ==
    IF count = 0 THEN <<>>
    ELSE build_array_level(
           <<CacheOptimizedNode(At(data, start), INVALID_INDEX, 0)>>,
           data, start + 1, count - 1, 0, 1, array_levels, max_children)

\* rebuild_hybrid_structure: the new array_storage_ and total_size_.
\* build_pointer_portions has an empty body, so what does not fit the array
\* is put nowhere.
rebuild_hybrid_structure(data, array_levels, max_children) ==
    LET array_capacity == calculate_array_capacity(array_levels, max_children)
        array_elements == Min(Len(data), array_capacity)
    IN  [array_storage |->
            build_balanced_array_portion(data, 0, array_elements,
                                         array_levels, max_children),
         total_size |-> Len(data)]

\* what balance_tree_hybrid collects into all_data
all_data(array_storage, array_node_count, pointer_roots) ==
    [i \in 1..array_node_count |-> array_storage[i].data]
      \o Flatten([i \in 1..Len(pointer_roots) |->
                    collect_pointer_subtree_data(pointer_roots[i])])

calculate_pointer_subtree_depth(node) ==
    IF node.children = <<>> THEN 0 ELSE 1

calculate_max_depth(array_storage, array_node_count, pointer_roots) ==
    SeqMax([i \in 1..array_node_count |-> array_storage[i].depth])
      + SeqMax([i \in 1..Len(pointer_roots) |->
                  calculate_pointer_subtree_depth(pointer_roots[i])])
      + 1

\* the payloads of the nodes the callers added: the array nodes and the
\* leaves under the pointer subtree roots
HybridPayloads(array_storage, array_node_count, pointer_roots) ==
    [i \in 1..array_node_count |-> array_storage[i].data]
      \o Flatten([i \in 1..Len(pointer_roots) |-> pointer_roots[i].children])

\* a multiset of payloads: how many times each value occurs
Multiset(payloads) ==
    [v \in 0..MaxPayload |->
       Cardinality({i \in DOMAIN payloads : payloads[i] = v})]

HybridCalled(op, parent_idx, error) ==
    h_call' = [op |-> op, parent_idx |-> parent_idx, error |-> error,
               array_storage |-> h_array_storage,
               pointer_roots |-> h_pointer_roots,
               array_node_count |-> h_array_node_count,
               total_size |-> h_total_size,
               payloads |-> Multiset(HybridPayloads(h_array_storage,
                                                    h_array_node_count,
                                                    h_pointer_roots))]

\* HybridArrayNaryTree(T root_data, size_t max_children, size_t array_levels)
HybridInit ==
    /\ \E d \in Payloads :
         h_array_storage = <<CacheOptimizedNode(d, INVALID_INDEX, 0)>>
    /\ h_array_levels \in 1..MaxArrayLevels
    /\ h_max_children_per_node \in 0..MaxChildren
    /\ h_array_node_count = 1
    /\ h_pointer_roots = <<>>
    /\ h_total_size = 1
    /\ h_call = [op |-> "new", parent_idx |-> INVALID_INDEX, error |-> FALSE,
                 array_storage |-> <<>>, pointer_roots |-> <<>>,
                 array_node_count |-> 0, total_size |-> 0,
                 payloads |-> Multiset(<<>>)]

\* HybridArrayNaryTree(size_t max_children, size_t array_levels): the empty
\* tree
HybridInitDefault ==
    /\ h_array_storage = <<>>
    /\ h_array_levels \in 1..MaxArrayLevels
    /\ h_max_children_per_node \in 0..MaxChildren
    /\ h_array_node_count = 0
    /\ h_pointer_roots = <<>>
    /\ h_total_size = 0
    /\ h_call = [op |-> "new", parent_idx |-> INVALID_INDEX, error |-> FALSE,
                 array_storage |-> <<>>, pointer_roots |-> <<>>,
                 array_node_count |-> 0, total_size |-> 0,
                 payloads |-> Multiset(<<>>)]

\* add_child_to_array
add_child_to_array(parent_idx, child_data) ==
    LET child_idx == h_array_node_count
        placed == Append(h_array_storage,
                         CacheOptimizedNode(child_data, parent_idx,
                                            At(h_array_storage, parent_idx).depth + 1))
        first == IF At(placed, parent_idx).child_count = 0
                 THEN [placed EXCEPT ![parent_idx + 1].first_child_idx = child_idx]
                 ELSE placed
    IN  /\ h_array_storage' = [first EXCEPT ![parent_idx + 1].child_count = @ + 1]
        /\ h_array_node_count' = h_array_node_count + 1
        /\ h_total_size' = h_total_size + 1
        /\ UNCHANGED h_pointer_roots

\* add_child_to_pointer_subtree, with find_or_create_pointer_subtree
add_child_to_pointer_subtree(array_parent_idx, child_data) ==
    LET found == find_pointer_subtree(h_pointer_roots, array_parent_idx)
        roots == IF found = 0
                 THEN Append(h_pointer_roots,
                             PointerNode(DefaultPayload, array_parent_idx))
                 ELSE h_pointer_roots
        at == IF found = 0 THEN Len(roots) ELSE found
    IN  /\ h_pointer_roots' =
              [roots EXCEPT ![at].children = Append(@, child_data)]
        /\ h_total_size' = h_total_size + 1
        /\ UNCHANGED <<h_array_storage, h_array_node_count>>

\* add_child_optimized placing a child in the array whenever the parent is
\* above the last array level, without the test of the array capacity
HybridAddChildNoCapacityTest ==
    \E parent_idx \in 0..h_array_node_count, child_data \in Payloads :
        /\ h_total_size < MaxHybridNodes
        /\ IF parent_idx >= h_array_node_count
           THEN /\ HybridCalled("add_child_optimized", parent_idx, TRUE)
                /\ UNCHANGED <<h_array_storage, h_array_node_count,
                               h_pointer_roots, h_total_size>>
           ELSE /\ HybridCalled("add_child_optimized", parent_idx, FALSE)
                /\ IF At(h_array_storage, parent_idx).depth
                        < h_array_levels - 1
                   THEN add_child_to_array(parent_idx, child_data)
                   ELSE add_child_to_pointer_subtree(parent_idx, child_data)
        /\ UNCHANGED <<h_array_levels, h_max_children_per_node>>
        /\ UNCHANGED <<focusedVars, arrayVars, sbVars, fsVars, bitVars, pyVars,
                   octVars, inoVars>>

\* HybridArrayNaryTree::add_child_optimized; parent_idx = array_node_count_ is
\* the index one past the array portion
HybridAddChild ==
    \E parent_idx \in 0..h_array_node_count, child_data \in Payloads :
        /\ h_total_size < MaxHybridNodes
        /\ IF parent_idx >= h_array_node_count
           THEN \* throw std::out_of_range
                /\ HybridCalled("add_child_optimized", parent_idx, TRUE)
                /\ UNCHANGED <<h_array_storage, h_array_node_count,
                               h_pointer_roots, h_total_size>>
           ELSE /\ HybridCalled("add_child_optimized", parent_idx, FALSE)
                /\ IF /\ At(h_array_storage, parent_idx).depth
                           < h_array_levels - 1
                      /\ h_array_node_count
                           < calculate_array_capacity(h_array_levels,
                                                      h_max_children_per_node)
                   THEN add_child_to_array(parent_idx, child_data)
                   ELSE add_child_to_pointer_subtree(parent_idx, child_data)
        /\ UNCHANGED <<h_array_levels, h_max_children_per_node>>
        /\ UNCHANGED <<focusedVars, arrayVars, sbVars, fsVars, bitVars, pyVars,
                   octVars, inoVars>>

\* balance_tree_hybrid with the size test made after the structure was
\* cleared instead of before anything is touched
HybridBalanceClearsFirst ==
    /\ HybridCalled("balance_tree_hybrid", INVALID_INDEX, FALSE)
    /\ IF h_total_size <= 1
       THEN /\ h_array_storage' = <<>>
            /\ h_array_node_count' = 0
            /\ h_pointer_roots' = <<>>
            /\ UNCHANGED h_total_size
       ELSE LET rebuilt ==
                  rebuild_hybrid_structure(
                    all_data(h_array_storage, h_array_node_count,
                             h_pointer_roots),
                    h_array_levels, h_max_children_per_node)
            IN  /\ h_array_storage' = rebuilt.array_storage
                /\ h_array_node_count' = Len(rebuilt.array_storage)
                /\ h_pointer_roots' = <<>>
                /\ h_total_size' = rebuilt.total_size
    /\ UNCHANGED <<h_array_levels, h_max_children_per_node>>
    /\ UNCHANGED <<focusedVars, arrayVars, sbVars, fsVars, bitVars, pyVars,
                   octVars, inoVars>>

\* HybridArrayNaryTree::balance_tree_hybrid
HybridBalance ==
    /\ HybridCalled("balance_tree_hybrid", INVALID_INDEX, FALSE)
    /\ IF h_total_size <= 1
       THEN UNCHANGED <<h_array_storage, h_array_node_count, h_pointer_roots,
                        h_total_size>>
       ELSE LET rebuilt ==
                  rebuild_hybrid_structure(
                    all_data(h_array_storage, h_array_node_count,
                             h_pointer_roots),
                    h_array_levels, h_max_children_per_node)
            IN  /\ h_array_storage' = rebuilt.array_storage
                /\ h_array_node_count' = Len(rebuilt.array_storage)
                /\ h_pointer_roots' = <<>>
                /\ h_total_size' = rebuilt.total_size
    /\ UNCHANGED <<h_array_levels, h_max_children_per_node>>
    /\ UNCHANGED <<focusedVars, arrayVars, sbVars, fsVars, bitVars, pyVars,
                   octVars, inoVars>>

HybridNext == HybridAddChild \/ HybridBalance

\* HybridArrayNaryTree::clear
HybridClear ==
    /\ HybridCalled("clear", INVALID_INDEX, FALSE)
    /\ h_array_storage' = <<>>
    /\ h_pointer_roots' = <<>>
    /\ h_array_node_count' = 0
    /\ h_total_size' = 0
    /\ UNCHANGED <<h_array_levels, h_max_children_per_node>>
    /\ UNCHANGED <<focusedVars, arrayVars, sbVars, fsVars, bitVars, pyVars,
                   octVars, inoVars>>

\* HybridArrayNaryTree::set_root: clear(), then the root alone
HybridSetRoot ==
    \E root_data \in Payloads :
        /\ HybridCalled("set_root", INVALID_INDEX, FALSE)
        /\ h_array_storage' =
              <<CacheOptimizedNode(root_data, INVALID_INDEX, 0)>>
        /\ h_pointer_roots' = <<>>
        /\ h_array_node_count' = 1
        /\ h_total_size' = 1
        /\ UNCHANGED <<h_array_levels, h_max_children_per_node>>
        /\ UNCHANGED <<focusedVars, arrayVars, sbVars, fsVars, bitVars, pyVars,
                   octVars, inoVars>>

\* the four mutators of the tree, in any order
HybridLifeNext ==
    HybridAddChild \/ HybridBalance \/ HybridSetRoot \/ HybridClear

\* ------------------------------------------------------- succinct filesystem
\* succinct_decode_tree_kernel: the arguments are checked and nothing is
\* decoded; *root is left as it was
succinct_decode_tree_kernel(encoding, root) ==
    [ret |-> 0, root |-> root]

\* a NULL succinct_node pointer
NullNode == 0 - 1

FsNames == 1..MaxNames

\* succinct_alloc_node: a zeroed node with its name and an empty children
\* array of the initial capacity. children holds the first child_count
\* entries of the array.
succinct_alloc_node(name) ==
    [ino |-> 0, name |-> name, parent |-> NullNode, children |-> <<>>,
     child_capacity |-> INITIAL_CHILD_CAPACITY]

\* a superblock holding an encoding, as succinct_encode_tree leaves one
\* (is_encoded set) or as succinct_fill_super leaves it (is_encoded clear)
SbInit ==
    /\ s_root_node = "root"
    /\ s_structure_bit_count \in 0..MaxBits
    /\ s_structure_bits \in [1..s_structure_bit_count -> {0, 1}]
    /\ s_data_array_count \in 0..MaxData
    /\ s_data_array \in [1..s_data_array_count -> Payloads]
    /\ s_is_encoded \in BOOLEAN
    /\ s_nodes = <<[succinct_alloc_node(0) EXCEPT !.ino = 1]>>
    /\ s_next_ino = 2
    /\ s_oops = FALSE
    /\ s_call = [op |-> "fill_super", ret |-> 0, is_encoded |-> FALSE,
                 root_node |-> "NULL"]

\* succinct_decode_tree
SuccinctDecodeTree ==
    /\ ~s_oops
    /\ IF ~s_is_encoded
       THEN /\ s_call' = [op |-> "succinct_decode_tree", ret |-> 0,
                          is_encoded |-> FALSE, root_node |-> s_root_node]
            /\ UNCHANGED <<s_root_node, s_is_encoded>>
       ELSE LET encoding == [structure_bits |-> s_structure_bits,
                             structure_bit_count |-> s_structure_bit_count,
                             data_array |-> s_data_array,
                             data_count |-> s_data_array_count]
                decoded == succinct_decode_tree_kernel(encoding, s_root_node)
            IN  /\ s_root_node' = decoded.root
                /\ s_is_encoded' = (decoded.ret # 0)
                /\ s_call' = [op |-> "succinct_decode_tree",
                              ret |-> decoded.ret, is_encoded |-> TRUE,
                              root_node |-> s_root_node]
    /\ UNCHANGED <<s_structure_bits, s_structure_bit_count, s_data_array,
                   s_data_array_count>>
    /\ UNCHANGED <<focusedVars, arrayVars, hybridVars, bitVars, pyVars,
                   octVars, inoVars>>
    /\ UNCHANGED fsVars

SbNext == SuccinctDecodeTree

\* ------------------------------------------------------------- packed bits
\* bit bit_offset of an unsigned char
Bit(byte, bit_offset) == (byte \div (2 ^ bit_offset)) % 2

\* set_bit_in_array counting the bit offset from the high end of the byte
set_bit_msb_first(bits, bit_index, value) ==
    LET byte_index == bit_index \div 8
        bit_offset == 7 - (bit_index % 8)
        old == At(bits, byte_index)
    IN  IF value # 0
        THEN [bits EXCEPT ![byte_index + 1] =
                 IF Bit(old, bit_offset) = 1 THEN old
                 ELSE old + 2 ^ bit_offset]
        ELSE [bits EXCEPT ![byte_index + 1] =
                 IF Bit(old, bit_offset) = 1 THEN old - 2 ^ bit_offset
                 ELSE old]

\* set_bit_in_array
set_bit_in_array(bits, bit_index, value) ==
    LET byte_index == bit_index \div 8
        bit_offset == bit_index % 8
        old == At(bits, byte_index)
    IN  IF value # 0
        THEN [bits EXCEPT ![byte_index + 1] =
                 IF Bit(old, bit_offset) = 1 THEN old
                 ELSE old + 2 ^ bit_offset]
        ELSE [bits EXCEPT ![byte_index + 1] =
                 IF Bit(old, bit_offset) = 1 THEN old - 2 ^ bit_offset
                 ELSE old]

\* get_bit_from_array
get_bit_from_array(bits, bit_index) ==
    LET byte_index == bit_index \div 8
        bit_offset == bit_index % 8
    IN  Bit(At(bits, byte_index), bit_offset)

\* the packing loop of save_succinct_format and narytree_encode_succinct:
\* zeroed bytes, then packed[i / 8] |= (1 << (i % 8)) for every set bit i
RECURSIVE pack_loop(_, _, _)
pack_loop(structure_bits, i, packed) ==
    IF i >= Len(structure_bits) THEN packed
    ELSE pack_loop(structure_bits, i + 1,
                   IF At(structure_bits, i) = 1
                   THEN set_bit_in_array(packed, i, 1)
                   ELSE packed)

pack_bits(structure_bits) ==
    pack_loop(structure_bits, 0,
              [k \in 1..((Len(structure_bits) + 7) \div 8) |-> 0])

\* the byte values a buffer starts from
SampleBytes == {0, 255, 165}

BitsInit ==
    /\ b_bits \in [1..MaxBytes -> SampleBytes]
    /\ b_ops = 0
    /\ b_call = [op |-> "alloc", bit_index |-> 0, value |-> 0,
                 bits |-> b_bits]

\* a caller of set_bit_in_array
SetBitInArray ==
    /\ b_ops < MaxBitOps
    /\ \E bit_index \in 0..(8 * MaxBytes - 1), value \in {0, 1} :
         /\ b_bits' = set_bit_in_array(b_bits, bit_index, value)
         /\ b_call' = [op |-> "set_bit_in_array", bit_index |-> bit_index,
                       value |-> value, bits |-> b_bits]
    /\ b_ops' = b_ops + 1
    /\ UNCHANGED <<focusedVars, arrayVars, hybridVars, sbVars, fsVars, pyVars,
                   octVars, inoVars>>

\* a caller packing the bits the buffer holds into a fresh buffer
PackBits ==
    /\ b_ops < MaxBitOps
    /\ b_bits' = pack_bits([k \in 1..(8 * Len(b_bits)) |->
                              get_bit_from_array(b_bits, k - 1)])
    /\ b_call' = [op |-> "pack_bits", bit_index |-> 0, value |-> 0,
                  bits |-> b_bits]
    /\ b_ops' = b_ops + 1
    /\ UNCHANGED <<focusedVars, arrayVars, hybridVars, sbVars, fsVars, pyVars,
                   octVars, inoVars>>

BitsNext == SetBitInArray \/ PackBits

\* --------------------------------------------------------------- succinct_fs
\* succinct_add_child storing the new capacity before it tests what krealloc
\* returned
succinct_add_child_early_capacity(nodes, parent, child, krealloc_ok) ==
    IF parent = NullNode \/ child = NullNode
    THEN [ret |-> 0 - EINVAL, nodes |-> nodes]
    ELSE LET full == Len(At(nodes, parent).children)
                       >= At(nodes, parent).child_capacity
             grown == [nodes EXCEPT ![parent + 1].child_capacity =
                                       IF full THEN @ * 2 ELSE @]
         IN  IF full /\ ~krealloc_ok
             THEN [ret |-> 0 - ENOMEM, nodes |-> grown]
             ELSE [ret |-> 0,
                   nodes |-> [grown EXCEPT
                                ![parent + 1].children = Append(@, child),
                                ![child + 1].parent = parent]]

\* succinct_add_child; krealloc_ok is the outcome of the krealloc it makes
\* when the children array is full
succinct_add_child(nodes, parent, child, krealloc_ok) ==
    IF parent = NullNode \/ child = NullNode
    THEN [ret |-> 0 - EINVAL, nodes |-> nodes]
    ELSE LET full == Len(At(nodes, parent).children)
                       >= At(nodes, parent).child_capacity
         IN  IF full /\ ~krealloc_ok
             THEN [ret |-> 0 - ENOMEM, nodes |-> nodes]
             ELSE [ret |-> 0,
                   nodes |->
                     [nodes EXCEPT
                        ![parent + 1].child_capacity =
                            IF full THEN @ * 2 ELSE @,
                        ![parent + 1].children = Append(@, child),
                        ![child + 1].parent = parent]]

\* the nodes succinct_free_node frees: the node and, recursively, its children
RECURSIVE freed_by(_, _)
freed_by(nodes, node) ==
    IF node = NullNode THEN {}
    ELSE {node} \cup UNION {freed_by(nodes, At(nodes, node).children[k]) :
                              k \in 1..Len(At(nodes, node).children)}

\* succinct_free_node, for a node allocated last
succinct_free_node(nodes, node) ==
    SubSeq(nodes, 1, Len(nodes) - Cardinality(freed_by(nodes, node)))

\* succinct_fill_super: the root directory node "/" (name 0) with ino 1;
\* succinct_get_inode has advanced next_ino from 1 to 2
FsInit ==
    /\ s_root_node = "root"
    /\ s_nodes = <<[succinct_alloc_node(0) EXCEPT !.ino = 1]>>
    /\ s_next_ino = 2
    /\ s_oops = FALSE
    /\ s_structure_bits = <<>>
    /\ s_structure_bit_count = 0
    /\ s_data_array = <<>>
    /\ s_data_array_count = 0
    /\ s_is_encoded = FALSE
    /\ s_call = [op |-> "fill_super", ret |-> 0, is_encoded |-> FALSE,
                 root_node |-> "NULL"]

\* succinct_mknod on directory dir with the dentry name name. The outcomes of
\* new_inode, of the allocations of succinct_alloc_node and of krealloc are
\* inputs.
SuccinctMknod ==
    /\ ~s_oops
    /\ s_next_ino < MaxIno
    /\ Len(s_nodes) < MaxFsNodes
    /\ \E dir \in 0..(Len(s_nodes) - 1), name \in FsNames,
          inode_ok \in BOOLEAN, alloc_ok \in BOOLEAN, krealloc_ok \in BOOLEAN :
         LET called(ret, failed) ==
                 [op |-> "succinct_mknod", ret |-> ret, failed |-> failed,
                  nodes |-> s_nodes]
             new_node == Len(s_nodes)
             allocated ==
                 Append(s_nodes, [succinct_alloc_node(name) EXCEPT
                                    !.ino = s_next_ino + 1])
             added == succinct_add_child(allocated, dir, new_node,
                                         krealloc_ok)
         IN  IF ~inode_ok
             THEN /\ s_call' = called(0 - ENOSPC, "new_inode")
                  /\ UNCHANGED <<s_nodes, s_next_ino>>
             ELSE IF ~alloc_ok
             THEN /\ s_call' = called(0 - ENOMEM, "succinct_alloc_node")
                  /\ s_next_ino' = s_next_ino + 1
                  /\ UNCHANGED s_nodes
             ELSE IF added.ret # 0
             THEN /\ s_call' = called(added.ret, "succinct_add_child")
                  /\ s_next_ino' = s_next_ino + 1
                  /\ s_nodes' = succinct_free_node(added.nodes, new_node)
             ELSE /\ s_call' = called(0, "")
                  /\ s_next_ino' = s_next_ino + 1
                  /\ s_nodes' = added.nodes
    /\ UNCHANGED <<s_root_node, s_structure_bits, s_structure_bit_count,
                   s_data_array, s_data_array_count, s_is_encoded, s_oops>>
    /\ UNCHANGED <<focusedVars, arrayVars, hybridVars, bitVars, pyVars,
                   octVars, inoVars>>

\* encode_preorder_kernel over the memory at *bits_ptr and *data_ptr
RECURSIVE encode_preorder_kernel(_, _, _)
RECURSIVE encode_children(_, _, _, _)
encode_preorder_kernel(nodes, node, st) ==
    IF node = NullNode THEN st
    ELSE LET opened ==
                 [bits |-> set_bit_in_array(st.bits, st.bit_index, 1),
                  bit_index |-> st.bit_index + 1,
                  data |-> [st.data EXCEPT ![st.data_index + 1] =
                                              At(nodes, node).name],
                  data_index |-> st.data_index + 1]
             inner == encode_children(nodes, node, 0, opened)
         IN  [inner EXCEPT
                !.bits = set_bit_in_array(inner.bits, inner.bit_index, 0),
                !.bit_index = @ + 1]

encode_children(nodes, node, i, st) ==
    IF i >= Len(At(nodes, node).children) THEN st
    ELSE encode_children(nodes, node, i + 1,
                         encode_preorder_kernel(
                           nodes, At(At(nodes, node).children, i), st))

\* succinct_encode_tree_kernel. The buffers are sized from node_count, which
\* is 0: one byte of bits and a zero-size data array. memory is what the
\* stores of encode_preorder_kernel reach, the allocation and what lies
\* behind it; the call returns only if every store past the allocations
\* lands (overrun tells whether there was one).
succinct_encode_tree_kernel(nodes, root) ==
    LET node_count == 0
        max_bits == node_count * 2 + 1
        byte_count == (max_bits + 7) \div 8
        memory == [bits |-> [k \in 1..(2 * MaxFsNodes + 7) \div 8 + 1 |-> 0],
                   bit_index |-> 0,
                   data |-> [k \in 1..(MaxFsNodes + 1) |-> 0],
                   data_index |-> 0]
        done == encode_preorder_kernel(nodes, root, memory)
    IN  [ret |-> 0,
         structure_bits |-> done.bits,
         structure_bit_count |-> done.bit_index,
         data_array |-> SubSeq(done.data, 1, done.data_index),
         data_count |-> done.data_index,
         node_count |-> node_count,
         overrun |-> \/ done.data_index > node_count
                     \/ done.bit_index > 8 * byte_count]

\* succinct_encode_tree. The superblock's bits are held bit by bit, as
\* get_bit_from_array reads them.
SuccinctEncodeTree ==
    /\ ~s_oops
    /\ \E bits_ok \in BOOLEAN, stores_land \in BOOLEAN :
         LET encoding == succinct_encode_tree_kernel(s_nodes, 0)
             called(ret) ==
                 [op |-> "succinct_encode_tree", ret |-> ret,
                  node_count |-> encoding.node_count,
                  structure_bit_count |-> encoding.structure_bit_count,
                  data_count |-> encoding.data_count,
                  data_array |-> encoding.data_array]
         IN  IF ~bits_ok
             THEN /\ s_call' = [op |-> "succinct_encode_tree",
                                ret |-> 0 - ENOMEM]
                  /\ UNCHANGED <<s_structure_bits, s_structure_bit_count,
                                 s_data_array, s_data_array_count,
                                 s_is_encoded, s_oops>>
             ELSE IF encoding.overrun /\ ~stores_land
             THEN /\ s_oops' = TRUE
                  /\ s_call' = [op |-> "oops"]
                  /\ UNCHANGED <<s_structure_bits, s_structure_bit_count,
                                 s_data_array, s_data_array_count,
                                 s_is_encoded>>
             ELSE /\ s_structure_bits' =
                        [k \in 1..encoding.structure_bit_count |->
                           get_bit_from_array(encoding.structure_bits, k - 1)]
                  /\ s_structure_bit_count' = encoding.structure_bit_count
                  /\ s_data_array' = encoding.data_array
                  /\ s_data_array_count' = encoding.data_count
                  /\ s_is_encoded' = TRUE
                  /\ s_call' = called(encoding.ret)
                  /\ UNCHANGED s_oops
    /\ UNCHANGED <<s_root_node, s_nodes, s_next_ino>>
    /\ UNCHANGED <<focusedVars, arrayVars, hybridVars, bitVars, pyVars,
                   octVars, inoVars>>

\* succinct_mknod is the only one of these operations the filesystem calls
FsNext == SuccinctMknod

\* the tree that n - 1 successful succinct_mknod calls leave, node i created
\* under parents[i + 1] with the name names[i + 1]
TreeOf(n, parents, names) ==
    [k \in 1..n |->
       LET IsChild(j) == j >= 1 /\ parents[j + 1] = k - 1
       IN  [ino |-> IF k = 1 THEN 1 ELSE k + 1,
            name |-> IF k = 1 THEN 0 ELSE names[k],
            parent |-> IF k = 1 THEN NullNode ELSE parents[k],
            children |-> SelectSeq([j \in 1..n |-> j - 1], IsChild),
            child_capacity |-> INITIAL_CHILD_CAPACITY]]

\* a mounted filesystem holding a tree of up to MaxEncodeNodes nodes
EncodeInit ==
    /\ s_root_node = "root"
    /\ \E n \in 1..MaxEncodeNodes :
         \E parents \in [1..n -> 0..(n - 1)], names \in [1..n -> FsNames] :
            /\ \A k \in 2..n : parents[k] < k - 1
            /\ parents[1] = 0
            /\ names[1] = 1
            /\ s_nodes = TreeOf(n, parents, names)
            /\ s_next_ino = n + 1
    /\ s_oops = FALSE
    /\ s_structure_bits = <<>>
    /\ s_structure_bit_count = 0
    /\ s_data_array = <<>>
    /\ s_data_array_count = 0
    /\ s_is_encoded = FALSE
    /\ s_call = [op |-> "fill_super", ret |-> 0, is_encoded |-> FALSE,
                 root_node |-> "NULL"]

\* the encoding operations, for a caller that uses them
EncodeNext == SuccinctEncodeTree \/ SuccinctDecodeTree

\* ------------------------------------------------------------ Python binding
\* NaryTree<PyObject*>::set_root: the store becomes the single root
nary_set_root(tree, root_data) == <<root_data>>

\* NaryTree::clear: the store becomes empty
nary_clear(tree) == <<>>

\* tree.for_each(Py_DECREF(node.data())), skipped on an empty tree: the
\* release counts after one Py_DECREF per node of the tree
decref_each(tree, released) ==
    [o \in DOMAIN released |->
       released[o] + Cardinality({k \in 1..Len(tree) : tree[k] = o})]

\* no NaryTreeObject exists
PyInit ==
    /\ p_tree = <<>>
    /\ p_state = "none"
    /\ p_acquired = [o \in Payloads |-> 0]
    /\ p_released = [o \in Payloads |-> 0]
    /\ p_ops = 0

\* narytree_new and narytree_init of a new object, with a root payload or
\* with none (root_data 0)
NaryTreeInit ==
    /\ p_state # "live"
    /\ p_ops < MaxPyOps
    /\ \E root_data \in Payloads \cup {0} :
         IF root_data # 0
         THEN /\ p_tree' = <<root_data>>
              /\ p_acquired' = [p_acquired EXCEPT ![root_data] = @ + 1]
         ELSE /\ p_tree' = <<>>
              /\ UNCHANGED p_acquired
    /\ p_state' = "live"
    /\ p_ops' = p_ops + 1
    /\ UNCHANGED p_released
    /\ UNCHANGED <<focusedVars, arrayVars, hybridVars, sbVars, fsVars, bitVars,
                   octVars, inoVars>>

\* narytree_set_root
NaryTreeSetRoot ==
    /\ p_state = "live"
    /\ p_ops < MaxPyOps
    /\ \E root_data \in Payloads :
         /\ p_acquired' = [p_acquired EXCEPT ![root_data] = @ + 1]
         /\ p_tree' = nary_set_root(p_tree, root_data)
    /\ p_ops' = p_ops + 1
    /\ UNCHANGED <<p_state, p_released>>
    /\ UNCHANGED <<focusedVars, arrayVars, hybridVars, sbVars, fsVars, bitVars,
                   octVars, inoVars>>

\* narytree_clear
NaryTreeClear ==
    /\ p_state = "live"
    /\ p_ops < MaxPyOps
    /\ p_released' = decref_each(p_tree, p_released)
    /\ p_tree' = nary_clear(p_tree)
    /\ p_ops' = p_ops + 1
    /\ UNCHANGED <<p_state, p_acquired>>
    /\ UNCHANGED <<focusedVars, arrayVars, hybridVars, sbVars, fsVars, bitVars,
                   octVars, inoVars>>

\* narytree_dealloc: delete self->tree runs ~NaryTreeWrapper
NaryTreeDealloc ==
    /\ p_state = "live"
    /\ p_released' = decref_each(p_tree, p_released)
    /\ p_tree' = <<>>
    /\ p_state' = "dead"
    /\ UNCHANGED <<p_acquired, p_ops>>
    /\ UNCHANGED <<focusedVars, arrayVars, hybridVars, sbVars, fsVars, bitVars,
                   octVars, inoVars>>

PyNext ==
    NaryTreeInit \/ NaryTreeSetRoot \/ NaryTreeClear \/ NaryTreeDealloc

\* ------------------------------------------------------------ SuccinctCodec
CorruptEncoding == [ok |-> FALSE, tree |-> <<>>]

\* decode: one left-to-right scan of the bits with a stack of open nodes and a
\* cursor into data. The tree built is the sequence of its nodes in creation
\* order, each with its payload and the index of its parent (-1: the root).
RECURSIVE decode_scan(_, _, _, _, _)
decode_scan(bits, data, cursor, stack, tree) ==
    IF bits = <<>>
    THEN IF stack # <<>> \/ cursor # Len(data)
         THEN CorruptEncoding
         ELSE [ok |-> TRUE, tree |-> tree]
    ELSE IF Head(bits) = 1
    THEN IF cursor >= Len(data)
         THEN CorruptEncoding
         ELSE decode_scan(Tail(bits), data, cursor + 1,
                          Append(stack, Len(tree)),
                          Append(tree,
                                 [data |-> data[cursor + 1],
                                  parent_index |->
                                    IF stack = <<>> THEN -1
                                    ELSE stack[Len(stack)]]))
    ELSE IF stack = <<>>
         THEN CorruptEncoding
         ELSE decode_scan(Tail(bits), data, cursor,
                          SubSeq(stack, 1, Len(stack) - 1), tree)

decode_succinct(encoding) ==
    IF Len(encoding.structure_bits) # 2 * encoding.node_count
    THEN CorruptEncoding
    ELSE decode_scan(encoding.structure_bits, encoding.data_array, 0, <<>>, <<>>)

\* Depth of a decoded tree: the longest chain of parent links, in nodes.
RECURSIVE DecodedNodeDepth(_, _)
DecodedNodeDepth(tree, i) ==
    IF At(tree, i).parent_index = -1 THEN 1
    ELSE 1 + DecodedNodeDepth(tree, At(tree, i).parent_index)

DecodedDepth(tree) == SeqMax([k \in 1..Len(tree) |-> DecodedNodeDepth(tree, k - 1)])

DecodedPayloads(tree) == [k \in 1..Len(tree) |-> tree[k].data]

\* Every prefix has at least as many 1s as 0s, and the totals are equal.
Ones(bits, n) == Cardinality({k \in 1..n : bits[k] = 1})

Balanced(bits) ==
    /\ \A n \in 0..Len(bits) : 2 * Ones(bits, n) >= n
    /\ 2 * Ones(bits, Len(bits)) = Len(bits)

FocusedInit ==
    /\ \E d \in Payloads : f_nodes = <<ArrayNode(d, -1)>>
    /\ f_root_index = 0
    /\ f_size = 1
    /\ f_ops = 0
    /\ f_call = [op |-> "new", nodes |-> <<>>, root_index |-> -1, ops |-> 0,
                 parent_index |-> -1, child_data |-> 0, result |-> -1]

\* add_child_internal testing the counter with > instead of >=
add_child_internal_late(parent_index, child_data) ==
    LET child_index == Len(f_nodes)
        pushed == Append(f_nodes, ArrayNode(child_data, parent_index))
        first == IF At(pushed, parent_index).child_count = 0
                 THEN [pushed EXCEPT
                         ![parent_index + 1].first_child_index = child_index]
                 ELSE pushed
        counted == [first EXCEPT ![parent_index + 1].child_count = @ + 1]
    IN  /\ f_size' = f_size + 1
        /\ IF f_ops + 1 > LAZY_BALANCE_THRESHOLD
           THEN /\ f_nodes' = rebalance_for_locality(counted, f_root_index)
                /\ f_root_index' = 0
                /\ f_ops' = 0
           ELSE /\ f_nodes' = counted
                /\ f_ops' = f_ops + 1
                /\ UNCHANGED f_root_index
        /\ f_call' = [op |-> "add_child", nodes |-> f_nodes,
                      root_index |-> f_root_index, ops |-> f_ops,
                      parent_index |-> parent_index,
                      child_data |-> child_data, result |-> child_index]
        /\ UNCHANGED <<arrayVars, hybridVars, sbVars, fsVars, bitVars, pyVars,
                   octVars, inoVars>>

\* FocusedNaryTree::add_child_internal, called through NodeRef::add_child
\* on a handle of the tree
add_child_internal(parent_index, child_data) ==
    LET child_index == Len(f_nodes)
        pushed == Append(f_nodes, ArrayNode(child_data, parent_index))
        first == IF At(pushed, parent_index).child_count = 0
                 THEN [pushed EXCEPT
                         ![parent_index + 1].first_child_index = child_index]
                 ELSE pushed
        counted == [first EXCEPT ![parent_index + 1].child_count = @ + 1]
    IN  /\ f_size' = f_size + 1
        /\ IF f_ops + 1 >= LAZY_BALANCE_THRESHOLD
           THEN /\ f_nodes' = rebalance_for_locality(counted, f_root_index)
                /\ f_root_index' = 0
                /\ f_ops' = 0
           ELSE /\ f_nodes' = counted
                /\ f_ops' = f_ops + 1
                /\ UNCHANGED f_root_index
        /\ f_call' = [op |-> "add_child", nodes |-> f_nodes,
                      root_index |-> f_root_index, ops |-> f_ops,
                      parent_index |-> parent_index,
                      child_data |-> child_data, result |-> child_index]
        /\ UNCHANGED <<arrayVars, hybridVars, sbVars, fsVars, bitVars, pyVars,
                   octVars, inoVars>>

FocusedAddChild ==
    \E p \in 0..(Len(f_nodes) - 1), d \in Payloads :
        /\ Len(f_nodes) < MaxNodes
        /\ add_child_internal(p, d)

\* FocusedNaryTree::force_rebalance
FocusedForceRebalance ==
    /\ f_nodes' = rebalance_for_locality(f_nodes, f_root_index)
    /\ f_root_index' = 0
    /\ f_ops' = 0
    /\ f_call' = [op |-> "force_rebalance", nodes |-> f_nodes,
                  root_index |-> f_root_index, ops |-> f_ops,
                  parent_index |-> -1, child_data |-> 0, result |-> -1]
    /\ UNCHANGED f_size
    /\ UNCHANGED <<arrayVars, hybridVars, sbVars, fsVars, bitVars, pyVars,
                   octVars, inoVars>>

FocusedNext == FocusedAddChild \/ FocusedForceRebalance

\* NodeRef::add_child in a long run of insertions: on any node while the tree
\* has fewer than MaxRunPrefix nodes, on the root afterwards
FocusedAddChildRun ==
    /\ Len(f_nodes) < MaxRunNodes
    /\ \E p \in 0..(Len(f_nodes) - 1) :
         /\ Len(f_nodes) >= MaxRunPrefix => p = 0
         /\ add_child_internal(p, 1)

\* force_rebalance in such a run, called while the tree is still small
FocusedForceRebalanceRun ==
    /\ Len(f_nodes) <= MaxRunPrefix
    /\ FocusedForceRebalance

FocusedRunNext == FocusedAddChildRun \/ FocusedForceRebalanceRun

\* ------------------------------------------------------------------- Octree
\* the value a double holds past its largest finite value
Infinity == MaxFinite + 1

\* (a + b) / T(2) for T = double (OctreeDouble): the sum is infinite when it
\* passes the largest finite value; coordinates are whole model units
half_sum(a, b) ==
    IF a + b > MaxFinite THEN Infinity
    ELSE IF a + b < 0 - MaxFinite THEN 0 - Infinity
    ELSE (a + b) \div 2

\* Point3D(T x, T y, T z, PyObject* data)
Point3D(x, y, z, data) == [x |-> x, y |-> y, z |-> z, data |-> data]

\* BoundingBox3D(min_x, ..., max_z); the constructor throws when valid_ is
\* false
BoundingBox3D(min_x, min_y, min_z, max_x, max_y, max_z) ==
    [min_x |-> min_x, min_y |-> min_y, min_z |-> min_z,
     max_x |-> max_x, max_y |-> max_y, max_z |-> max_z,
     valid |-> max_x >= min_x /\ max_y >= min_y /\ max_z >= min_z]

\* BoundingBox3D::contains
contains(box, point) ==
    /\ box.valid
    /\ point.x >= box.min_x /\ point.x <= box.max_x
    /\ point.y >= box.min_y /\ point.y <= box.max_y
    /\ point.z >= box.min_z /\ point.z <= box.max_z

\* BoundingBox3D::intersects with strict overlap: boxes that only touch do
\* not intersect
intersects_open(box, other) ==
    /\ box.valid /\ other.valid
    /\ ~(\/ other.min_x >= box.max_x \/ other.max_x <= box.min_x
         \/ other.min_y >= box.max_y \/ other.max_y <= box.min_y
         \/ other.min_z >= box.max_z \/ other.max_z <= box.min_z)

\* BoundingBox3D::intersects
intersects(box, other) ==
    /\ box.valid /\ other.valid
    /\ ~(\/ other.min_x > box.max_x \/ other.max_x < box.min_x
         \/ other.min_y > box.max_y \/ other.max_y < box.min_y
         \/ other.min_z > box.max_z \/ other.max_z < box.min_z)

\* BoundingBox3D::center
center(box) ==
    [x |-> half_sum(box.min_x, box.max_x),
     y |-> half_sum(box.min_y, box.max_y),
     z |-> half_sum(box.min_z, box.max_z)]

\* Octree::getOctant: bit 1 right, bit 4 bottom, bit 2 back
getOctant(bounds, point) ==
    LET c == center(bounds)
    IN  (IF point.x >= c.x THEN 1 ELSE 0)
          + (IF point.y < c.y THEN 4 ELSE 0)
          + (IF point.z < c.z THEN 2 ELSE 0)

\* Octree::getOctantBounds
getOctantBounds(bounds, octant) ==
    LET c == center(bounds)
        b == bounds
    IN  CASE octant = 0 ->
               BoundingBox3D(b.min_x, c.y, c.z, c.x, b.max_y, b.max_z)
          [] octant = 1 ->
               BoundingBox3D(c.x, c.y, c.z, b.max_x, b.max_y, b.max_z)
          [] octant = 2 ->
               BoundingBox3D(b.min_x, c.y, b.min_z, c.x, b.max_y, c.z)
          [] octant = 3 ->
               BoundingBox3D(c.x, c.y, b.min_z, b.max_x, b.max_y, c.z)
          [] octant = 4 ->
               BoundingBox3D(b.min_x, b.min_y, c.z, c.x, c.y, b.max_z)
          [] octant = 5 ->
               BoundingBox3D(c.x, b.min_y, c.z, b.max_x, c.y, b.max_z)
          [] octant = 6 ->
               BoundingBox3D(b.min_x, b.min_y, b.min_z, c.x, c.y, c.z)
          [] octant = 7 ->
               BoundingBox3D(c.x, b.min_y, b.min_z, b.max_x, c.y, c.z)

\* Octree(const BoundingBox3D<T>& bounds, size_t depth): children is empty
\* while the eight children_ are null
Octree(bounds, depth) ==
    [bounds |-> bounds, points |-> <<>>, children |-> <<>>, depth |-> depth,
     is_subdivided |-> FALSE, subdivision_count |-> 0]

RECURSIVE insert(_, _)
RECURSIVE redistribute(_, _, _)

\* the loop of subdivide that moves points_ into the children; the value
\* insert returns is not looked at
redistribute(bounds, children, points) ==
    IF points = <<>> THEN children
    ELSE LET octant == getOctant(bounds, Head(points))
             moved == insert(children[octant + 1], Head(points))
         IN  redistribute(bounds,
                          [children EXCEPT ![octant + 1] = moved.node],
                          Tail(points))

\* Octree::subdivide. getOctantBounds throws when a BoundingBox3D it builds
\* is not valid; the handler resets the children and throws again.
subdivide(node) ==
    IF node.is_subdivided \/ node.depth >= MaxDepth
    THEN [node |-> node, threw |-> FALSE]
    ELSE LET octant_bounds ==
                 [i \in 1..8 |-> getOctantBounds(node.bounds, i - 1)]
         IN  IF \E i \in 1..8 : ~octant_bounds[i].valid
             THEN [node |-> node, threw |-> TRUE]
             ELSE LET made == [i \in 1..8 |->
                                 Octree(octant_bounds[i], node.depth + 1)]
                  IN  [node |->
                         [node EXCEPT
                            !.children = redistribute(node.bounds, made,
                                                      node.points),
                            !.points = <<>>,
                            !.is_subdivided = TRUE,
                            !.subdivision_count = @ + 1],
                       threw |-> FALSE]

\* Octree::insert: the node after the call and "true", "false" or "throw"
insert(node, point) ==
    IF ~contains(node.bounds, point)
    THEN [node |-> node, ret |-> "false"]
    ELSE IF /\ ~node.is_subdivided
            /\ (Len(node.points) < MaxPointsPerNode \/ node.depth >= MaxDepth)
    THEN [node |-> [node EXCEPT !.points = Append(@, point)], ret |-> "true"]
    ELSE LET divided == IF node.is_subdivided
                        THEN [node |-> node, threw |-> FALSE]
                        ELSE subdivide(node)
         IN  IF divided.threw
             THEN [node |-> divided.node, ret |-> "throw"]
             ELSE LET octant == getOctant(node.bounds, point)
                      below == insert(divided.node.children[octant + 1], point)
                  IN  [node |-> [divided.node EXCEPT
                                   !.children[octant + 1] = below.node],
                       ret |-> below.ret]

\* Octree::queryRange: the points pushed to result, in order
RECURSIVE queryRange(_, _)
queryRange(node, range) ==
    IF ~intersects(node.bounds, range) THEN <<>>
    ELSE SelectSeq(node.points, LAMBDA point : contains(range, point))
           \o (IF node.is_subdivided
               THEN Flatten([i \in 1..8 |->
                               queryRange(node.children[i], range)])
               ELSE <<>>)

\* Octree::size
RECURSIVE octree_size(_)
octree_size(node) ==
    Len(node.points)
      + (IF node.is_subdivided
         THEN SeqSum([i \in 1..8 |-> octree_size(node.children[i])])
         ELSE 0)

\* the points_ of every node of the octree
RECURSIVE stored_points(_)
stored_points(node) ==
    node.points
      \o (IF node.children = <<>> THEN <<>>
          ELSE Flatten([i \in 1..8 |-> stored_points(node.children[i])]))

\* the deepest node of the octree (Octree::getDepth)
RECURSIVE getDepth(_)
getDepth(node) ==
    IF ~node.is_subdivided THEN node.depth
    ELSE Max(node.depth, SeqMax([i \in 1..8 |-> getDepth(node.children[i])]))

\* root bounds: a cube in the middle of the range of double and one whose
\* min + max passes the largest finite value
RootBounds ==
    {BoundingBox3D(0, 0, 0, 4, 4, 4), BoundingBox3D(8, 8, 8, 16, 16, 16)}

\* coordinates callers insert: corners, the centre, inner points, a point
\* outside the first cube, a point inside the second
SamplePoints ==
    {<<0, 0, 0>>, <<1, 1, 1>>, <<2, 2, 2>>, <<3, 1, 0>>, <<4, 4, 4>>,
     <<5, 2, 2>>, <<12, 12, 12>>}

\* ranges callers query
SampleRanges ==
    {BoundingBox3D(0, 0, 0, 2, 2, 2), BoundingBox3D(4, 4, 4, 6, 6, 6),
     BoundingBox3D(1, 0, 0, 3, 1, 1), BoundingBox3D(8, 8, 8, 16, 16, 16),
     BoundingBox3D(5, 5, 5, 6, 6, 6)}

NoPoint == Point3D(0, 0, 0, 0)

NoRange == BoundingBox3D(0, 0, 0, 0, 0, 0)

\* OctreeDouble(min_x, min_y, min_z, max_x, max_y, max_z)
OctreeInit ==
    /\ \E bounds \in RootBounds : o_root = Octree(bounds, 0)
    /\ o_inserted = <<>>
    /\ o_query_count = 0
    /\ o_call = [op |-> "new", ret |-> "", point |-> NoPoint,
                 range |-> NoRange, root |-> <<>>, result |-> <<>>]

\* octree->insert(Point3D<double>(x, y, z, data)); each call passes another
\* data object, which tells the stored points apart
OctreeInsert ==
    /\ Len(o_inserted) < MaxOctreePoints
    /\ \E coords \in SamplePoints :
         LET point == Point3D(coords[1], coords[2], coords[3],
                              Len(o_inserted) + 1)
             done == insert(o_root, point)
         IN  /\ o_root' = done.node
             /\ o_inserted' = IF done.ret = "true"
                              THEN Append(o_inserted, point)
                              ELSE o_inserted
             /\ o_call' = [op |-> "insert", ret |-> done.ret,
                           point |-> point, range |-> NoRange,
                           root |-> o_root, result |-> <<>>]
    /\ UNCHANGED o_query_count
    /\ UNCHANGED <<focusedVars, arrayVars, hybridVars, sbVars, fsVars,
                   bitVars, pyVars, inoVars>>

\* octree->query(range)
OctreeQuery ==
    /\ o_query_count < MaxQueries
    /\ \E range \in SampleRanges :
         o_call' = [op |-> "query", ret |-> "", point |-> NoPoint,
                    range |-> range, root |-> o_root,
                    result |-> queryRange(o_root, range)]
    /\ o_query_count' = o_query_count + 1
    /\ UNCHANGED <<o_root, o_inserted>>
    /\ UNCHANGED <<focusedVars, arrayVars, hybridVars, sbVars, fsVars,
                   bitVars, pyVars, inoVars>>

OctreeNext == OctreeInsert \/ OctreeQuery

OctIdle ==
    /\ o_root = Octree(NoRange, 0)
    /\ o_inserted = <<>>
    /\ o_query_count = 0
    /\ o_call = [op |-> "new", ret |-> "", point |-> NoPoint,
                 range |-> NoRange, root |-> <<>>, result |-> <<>>]

\* ------------------------------------------------------- succinct_get_inode
\* the threads that call succinct_get_inode, from succinct_mknod and
\* succinct_lookup
Threads == 1..MaxThreads

\* calls of succinct_get_inode begun so far
inode_calls_begun ==
    Len(i_handed)
      + Cardinality({t \in Threads :
                       i_pc[t] \in {"spin_lock", "increment", "store"}})

\* succinct_fill_super: next_ino = 1, then succinct_get_inode for the root
\* makes it 2 and the root inode's i_ino is set to 1
InoInit ==
    /\ i_lock = 0
    /\ i_next_ino = 1 + 1
    /\ i_pc = [t \in Threads |-> "idle"]
    /\ i_ino = [t \in Threads |-> 0]
    /\ i_handed = <<>>

\* new_inode(sb); a NULL inode makes the call return NULL at once
GetInodeNewInode(t) ==
    /\ i_pc[t] = "idle"
    /\ inode_calls_begun < MaxInodeCalls
    /\ \E inode_ok \in BOOLEAN :
         IF inode_ok
         THEN i_pc' = [i_pc EXCEPT ![t] = "spin_lock"]
         ELSE UNCHANGED i_pc
    /\ UNCHANGED <<i_lock, i_next_ino, i_ino, i_handed>>
    /\ UNCHANGED <<focusedVars, arrayVars, hybridVars, sbVars, fsVars,
                   bitVars, pyVars, octVars>>

\* a spin_lock that takes the lock without waiting for its holder
GetInodeSpinLockNoWait(t) ==
    /\ i_pc[t] = "spin_lock"
    /\ i_lock' = t
    /\ i_pc' = [i_pc EXCEPT ![t] = "increment"]
    /\ UNCHANGED <<i_next_ino, i_ino, i_handed>>
    /\ UNCHANGED <<focusedVars, arrayVars, hybridVars, sbVars, fsVars,
                   bitVars, pyVars, octVars>>

\* spin_lock(&sbi->lock)
GetInodeSpinLock(t) ==
    /\ i_pc[t] = "spin_lock"
    /\ i_lock = 0
    /\ i_lock' = t
    /\ i_pc' = [i_pc EXCEPT ![t] = "increment"]
    /\ UNCHANGED <<i_next_ino, i_ino, i_handed>>
    /\ UNCHANGED <<focusedVars, arrayVars, hybridVars, sbVars, fsVars,
                   bitVars, pyVars, octVars>>

\* ++sbi->next_ino, the load and the addition
GetInodeIncrement(t) ==
    /\ i_pc[t] = "increment"
    /\ i_ino' = [i_ino EXCEPT ![t] = i_next_ino + 1]
    /\ i_pc' = [i_pc EXCEPT ![t] = "store"]
    /\ UNCHANGED <<i_lock, i_next_ino, i_handed>>
    /\ UNCHANGED <<focusedVars, arrayVars, hybridVars, sbVars, fsVars,
                   bitVars, pyVars, octVars>>

\* inode->i_ino = ++sbi->next_ino, the stores
GetInodeStore(t) ==
    /\ i_pc[t] = "store"
    /\ i_next_ino' = i_ino[t]
    /\ i_handed' = Append(i_handed, i_ino[t])
    /\ i_pc' = [i_pc EXCEPT ![t] = "spin_unlock"]
    /\ UNCHANGED <<i_lock, i_ino>>
    /\ UNCHANGED <<focusedVars, arrayVars, hybridVars, sbVars, fsVars,
                   bitVars, pyVars, octVars>>

\* spin_unlock(&sbi->lock) and the rest of the call, which touches the new
\* inode only
GetInodeSpinUnlock(t) ==
    /\ i_pc[t] = "spin_unlock"
    /\ i_lock' = 0
    /\ i_pc' = [i_pc EXCEPT ![t] = "idle"]
    /\ UNCHANGED <<i_next_ino, i_ino, i_handed>>
    /\ UNCHANGED <<focusedVars, arrayVars, hybridVars, sbVars, fsVars,
                   bitVars, pyVars, octVars>>

InoNext ==
    \E t \in Threads :
        \/ GetInodeNewInode(t)
        \/ GetInodeSpinLock(t)
        \/ GetInodeIncrement(t)
        \/ GetInodeStore(t)
        \/ GetInodeSpinUnlock(t)

InoIdle ==
    /\ i_lock = 0
    /\ i_next_ino = 0
    /\ i_pc = [t \in Threads |-> "idle"]
    /\ i_ino = [t \in Threads |-> 0]
    /\ i_handed = <<>>

\* A tree or superblock no call of the run touches: FocusedNaryTree(),
\* ArrayBasedNaryTree(), HybridArrayNaryTree() and a zeroed succinct_sb_info
FocusedIdle ==
    /\ f_nodes = <<>>
    /\ f_root_index = -1
    /\ f_size = 0
    /\ f_ops = 0
    /\ f_call = [op |-> "new", nodes |-> <<>>, root_index |-> -1, ops |-> 0,
                 parent_index |-> -1, child_data |-> 0, result |-> -1]

ArrayIdle ==
    /\ a_nodes = <<>>
    /\ a_spare = <<>>
    /\ a_root_index = -1
    /\ a_size = 0
    /\ a_capacity = INITIAL_CAPACITY
    /\ a_aborted = FALSE
    /\ a_call = [op |-> "new", parent_index |-> -1, nodes |-> <<>>,
                 root_index |-> -1, size |-> 0, error |-> FALSE, result |-> -1]

HybridIdle ==
    /\ h_array_storage = <<>>
    /\ h_array_levels = MaxArrayLevels
    /\ h_max_children_per_node = MaxChildren
    /\ h_array_node_count = 0
    /\ h_pointer_roots = <<>>
    /\ h_total_size = 0
    /\ h_call = [op |-> "new", parent_idx |-> INVALID_INDEX, error |-> FALSE,
                 array_storage |-> <<>>, pointer_roots |-> <<>>,
                 array_node_count |-> 0, total_size |-> 0,
                 payloads |-> Multiset(<<>>)]

SbIdle ==
    /\ s_root_node = "NULL"
    /\ s_structure_bits = <<>>
    /\ s_structure_bit_count = 0
    /\ s_data_array = <<>>
    /\ s_data_array_count = 0
    /\ s_is_encoded = FALSE
    /\ s_call = [op |-> "fill_super", ret |-> 0, is_encoded |-> FALSE,
                 root_node |-> "NULL"]
    /\ s_nodes = <<>>
    /\ s_next_ino = 1
    /\ s_oops = FALSE

BitsIdle ==
    /\ b_bits = <<>>
    /\ b_ops = 0
    /\ b_call = [op |-> "alloc", bit_index |-> 0, value |-> 0, bits |-> <<>>]

PyIdle ==
    /\ p_tree = <<>>
    /\ p_state = "none"
    /\ p_acquired = [o \in Payloads |-> 0]
    /\ p_released = [o \in Payloads |-> 0]
    /\ p_ops = 0

InitFocused ==
    FocusedInit /\ ArrayIdle /\ HybridIdle /\ SbIdle /\ BitsIdle /\ PyIdle
    /\ OctIdle /\ InoIdle

SpecFocused == InitFocused /\ [][FocusedNext]_vars

SpecFocusedRun == InitFocused /\ [][FocusedRunNext]_vars

InitArray ==
    FocusedIdle /\ ArrayInit /\ HybridIdle /\ SbIdle /\ BitsIdle /\ PyIdle
    /\ OctIdle /\ InoIdle

SpecArray == InitArray /\ [][ArrayNext]_vars

InitHybrid ==
    /\ FocusedIdle /\ ArrayIdle /\ SbIdle /\ BitsIdle /\ PyIdle
    /\ OctIdle /\ InoIdle
    /\ (HybridInit \/ HybridInitDefault)

SpecHybrid == InitHybrid /\ [][HybridNext]_vars

SpecHybridLife == InitHybrid /\ [][HybridLifeNext]_vars

InitSb ==
    FocusedIdle /\ ArrayIdle /\ HybridIdle /\ SbInit /\ BitsIdle /\ PyIdle
    /\ OctIdle /\ InoIdle

SpecSb == InitSb /\ [][SbNext]_vars

InitFs ==
    FocusedIdle /\ ArrayIdle /\ HybridIdle /\ FsInit /\ BitsIdle /\ PyIdle
    /\ OctIdle /\ InoIdle

SpecFs == InitFs /\ [][FsNext]_vars

InitEncode ==
    FocusedIdle /\ ArrayIdle /\ HybridIdle /\ EncodeInit /\ BitsIdle /\ PyIdle
    /\ OctIdle /\ InoIdle

SpecEncode == InitEncode /\ [][EncodeNext]_vars

InitBits ==
    FocusedIdle /\ ArrayIdle /\ HybridIdle /\ SbIdle /\ BitsInit /\ PyIdle
    /\ OctIdle /\ InoIdle

SpecBits == InitBits /\ [][BitsNext]_vars

InitPy ==
    FocusedIdle /\ ArrayIdle /\ HybridIdle /\ SbIdle /\ BitsIdle /\ PyInit
    /\ OctIdle /\ InoIdle

SpecPy == InitPy /\ [][PyNext]_vars

InitOctree ==
    FocusedIdle /\ ArrayIdle /\ HybridIdle /\ SbIdle /\ BitsIdle /\ PyIdle
    /\ OctreeInit /\ InoIdle

SpecOctree == InitOctree /\ [][OctreeNext]_vars

InitIno ==
    FocusedIdle /\ ArrayIdle /\ HybridIdle /\ SbIdle /\ BitsIdle /\ PyIdle
    /\ OctIdle /\ InoInit

SpecIno == InitIno /\ [][InoNext]_vars

\* ------------------------------------------------------------------ claims
FocusedEncoding == encode_succinct(f_nodes, f_root_index, f_size)

\* C1: decoding the encoding of the tree yields a tree with the same node
\* count, the same depth and the same preorder payload sequence.
C1_RoundTrip ==
    LET d == decode_succinct(FocusedEncoding)
    IN  /\ d.ok
        /\ Len(d.tree) = f_size
        /\ DecodedDepth(d.tree) = TreeDepth(f_nodes, f_root_index)
        /\ DecodedPayloads(d.tree) = TreePreorder(f_nodes, f_root_index)

\* C2: after any sequence of add_child calls, with or without a re-layout in
\* between, encode_succinct() returns exactly 2 * size() structure bits.
C2_BitLength == Len(FocusedEncoding.structure_bits) = 2 * f_size

\* C3: the encoding is, for each node in preorder, a 1, the encodings of its
\* children from left to right, then a 0: the bits are balanced, data holds
\* the payloads in preorder, and a root with two leaf children encodes to
\* 1 1 0 1 0 0.
C3_PreorderEncoding ==
    /\ FocusedEncoding.structure_bits = TreeBits(f_nodes, f_root_index)
    /\ FocusedEncoding.data_array = TreePreorder(f_nodes, f_root_index)
    /\ Balanced(FocusedEncoding.structure_bits)
    /\ (f_size = 3 /\ Len(ChildrenOf(f_nodes, f_root_index)) = 2)
         => FocusedEncoding.structure_bits = <<1, 1, 0, 1, 0, 0>>

\* the smallest e with k^e >= n, that is ceil(log_k(n)), for k >= 2, n >= 1
CeilLog(k, n) == CHOOSE e \in 0..n : k^e >= n /\ \A e2 \in 0..(e - 1) : k^e2 < n

\* C4: height balancing leaves size() unchanged and the multiset of payloads
\* identical: after balance_tree_hybrid the tree has the size and the
\* payloads, each as many times, that it had when the call was made.
C4_BalancePreservesPayloads ==
    h_call.op = "balance_tree_hybrid" =>
        /\ h_total_size = h_call.total_size
        /\ Multiset(HybridPayloads(h_array_storage, h_array_node_count,
                                   h_pointer_roots)) = h_call.payloads

\* C5: for a tree of n nodes and a branching factor k >= 2 the depth after
\* height balancing is at most ceil(log_k(n)) + 1.
C5_DepthBound ==
    (h_call.op = "balance_tree_hybrid" /\ h_max_children_per_node >= 2) =>
        calculate_max_depth(h_array_storage, h_array_node_count,
                            h_pointer_roots)
          <= CeilLog(h_max_children_per_node, h_call.total_size) + 1

\* the parent index names no slot of the store, or names a tombstone
InvalidParent(nodes, parent_index) ==
    IF InRange(nodes, parent_index)
    THEN ~At(nodes, parent_index).is_valid
    ELSE TRUE

\* C6: add_child with a parent index that is out of range or designates a
\* tombstoned slot fails with an error and leaves every slot, the size and
\* the root as they were before the call.
C6_InvalidParentRejected ==
    (a_call.op = "add_child" /\ InvalidParent(a_call.nodes, a_call.parent_index))
        => /\ a_call.error
           /\ a_nodes = a_call.nodes
           /\ a_size = a_call.size
           /\ a_root_index = a_call.root_index

\* the bit sequence closes a node when none is open, leaves nodes open at its
\* end, or comes with a number of data elements that is not its number of 1s
Malformed(bits, data_count) ==
    \/ \E n \in 1..Len(bits) : 2 * Ones(bits, n) < n
    \/ 2 * Ones(bits, Len(bits)) > Len(bits)
    \/ data_count # Ones(bits, Len(bits))

\* C7: decode fails with CorruptEncoding and returns no tree for every
\* malformed input: succinct_decode_tree of a superblock holding a malformed
\* encoding returns an error and leaves root_node as it was.
C7_MalformedRejected ==
    (/\ s_call.op = "succinct_decode_tree"
     /\ s_call.is_encoded
     /\ Malformed(s_structure_bits, s_data_array_count))
        => /\ s_call.ret # 0
           /\ s_root_node = s_call.root_node

\* C8: after a breadth-first re-layout the root is at index 0 and every valid
\* node with child_count > 0 has its children in exactly the slots
\* [first_child, first_child + child_count): all valid, no gaps, each with
\* parent_index pointing back to the node.
C8_ContiguousAfterLayout ==
    a_call.op = "optimize_layout" =>
        /\ a_root_index = 0
        /\ \A i \in 0..(Len(a_nodes) - 1) :
             (At(a_nodes, i).is_valid /\ At(a_nodes, i).child_count > 0) =>
                LET first == At(a_nodes, i).first_child_index
                    count == At(a_nodes, i).child_count
                IN  /\ \A c \in first..(first + count - 1) :
                          /\ InRange(a_nodes, c)
                          /\ At(a_nodes, c).is_valid
                          /\ At(a_nodes, c).parent_index = i
                    /\ ChildrenOf(a_nodes, i)
                         = [k \in 1..count |-> first + (k - 1)]

\* the tree below a node: its payload and, in left-to-right order, the trees
\* below its children
RECURSIVE TreeShape(_, _)
TreeShape(nodes, i) ==
    <<At(nodes, i).data,
      [k \in 1..Len(ChildrenOf(nodes, i)) |->
         TreeShape(nodes, ChildrenOf(nodes, i)[k])]>>

\* the indices of the nodes in level order, from the nodes of queue on
RECURSIVE LevelOrder(_, _)
LevelOrder(nodes, queue) ==
    IF queue = <<>> THEN <<>>
    ELSE <<Head(queue)>>
           \o LevelOrder(nodes, Tail(queue) \o ChildrenOf(nodes, Head(queue)))

ValidCount(nodes) ==
    Cardinality({i \in 0..(Len(nodes) - 1) : At(nodes, i).is_valid})

\* C9: breadth-first re-layout is a pure reordering: as many nodes after it
\* as before, the same payloads under the same parents with each node's
\* children in the same left-to-right order, and the nodes stored in level
\* order.
C9_PureReordering ==
    a_call.op = "optimize_layout" =>
        /\ ValidCount(a_nodes) = ValidCount(a_call.nodes)
        /\ TreeShape(a_nodes, a_root_index)
             = TreeShape(a_call.nodes, a_call.root_index)
        /\ LevelOrder(a_nodes, <<a_root_index>>)
             = [k \in 1..Len(a_nodes) |-> k - 1]

\* C10: breadth-first re-layout is idempotent: a second re-layout of the
\* array a re-layout produced yields that same array, slot for slot.
C10_LayoutIdempotent ==
    a_call.op = "optimize_layout" =>
        rebalance_breadth_first(a_nodes, a_root_index) = a_nodes

\* No re-layout has run on the tree yet: rebalance_breadth_first is the only
\* statement that lowers capacity_ (to nodes_.size()).
NoLayoutYet == a_capacity = INITIAL_CAPACITY

\* C11: after any sequence of add_child calls on ArrayBasedNaryTree every
\* valid node with child_count > 0 has first_child inside the backing array,
\* and the slots [first_child, first_child + child_count) are all valid, all
\* have that node as parent_index, and are exactly that node's children.
C11_ChildrenContiguous ==
    (a_call.op = "add_child" /\ NoLayoutYet) =>
        \A i \in 0..(Len(a_nodes) - 1) :
            (At(a_nodes, i).is_valid /\ At(a_nodes, i).child_count > 0) =>
                LET first == At(a_nodes, i).first_child_index
                    count == At(a_nodes, i).child_count
                IN  /\ InRange(a_nodes, first)
                    /\ \A c \in first..(first + count - 1) :
                          /\ InRange(a_nodes, c)
                          /\ At(a_nodes, c).is_valid
                          /\ At(a_nodes, c).parent_index = i
                    /\ ChildrenOf(a_nodes, i)
                         = [k \in 1..count |-> first + (k - 1)]

\* the live nodes of the store the call found are all still in their slots,
\* with their payload and their parent
LiveNodesKept ==
    \A i \in 0..(Len(a_call.nodes) - 1) :
        At(a_call.nodes, i).is_valid =>
            /\ InRange(a_nodes, i)
            /\ At(a_nodes, i).is_valid
            /\ At(a_nodes, i).data = At(a_call.nodes, i).data
            /\ At(a_nodes, i).parent_index = At(a_call.nodes, i).parent_index

\* C12: adding a child to a parent that already has children places it at
\* first_child + child_count, and no add_child destroys or replaces a live
\* node: when that slot holds one, the array is grown instead.
C12_NoLiveNodeOverwritten ==
    (/\ a_call.op = "add_child"
     /\ InRange(a_call.nodes, a_call.parent_index)
     /\ At(a_call.nodes, a_call.parent_index).child_count > 0) =>
        /\ a_call.result
             = At(a_call.nodes, a_call.parent_index).first_child_index
               + At(a_call.nodes, a_call.parent_index).child_count
        /\ LiveNodesKept

\* C13: adding the first child of the parent at index p stores it at the
\* first unoccupied index after the run of occupied slots that starts at
\* p + 1, grows the backing array so that this index is a slot of it, sets
\* p's first_child to that index, and leaves the slots of all other live
\* nodes unchanged.
C13_FirstChildPlacement ==
    (/\ a_call.op = "add_child"
     /\ NoLayoutYet
     /\ ~InvalidParent(a_call.nodes, a_call.parent_index)
     /\ At(a_call.nodes, a_call.parent_index).child_count = 0) =>
        LET p == a_call.parent_index
            target == p + 1 + ValidRun(a_call.nodes, p + 1)
        IN  /\ a_call.result = target
            /\ InRange(a_nodes, target)
            /\ At(a_nodes, target).is_valid
            /\ At(a_nodes, target).parent_index = p
            /\ At(a_nodes, p).first_child_index = target
            /\ \A i \in 0..(Len(a_call.nodes) - 1) :
                 (i # p /\ At(a_call.nodes, i).is_valid) =>
                     /\ InRange(a_nodes, i)
                     /\ At(a_nodes, i) = At(a_call.nodes, i)

\* C14: at every point between re-layouts a breadth-first traversal from the
\* root visits every node inserted so far exactly once, that is size() nodes.
C14_TraversalVisitsAll ==
    LET visited == for_each_breadth_first(f_nodes, <<f_root_index>>)
    IN  /\ Len(visited) = f_size
        /\ \A i \in 0..(Len(f_nodes) - 1) :
             Cardinality({k \in 1..Len(visited) : visited[k] = i}) = 1

\* the node at breadth-first position i holds the i-th payload of data, has
\* at most k children and, if it is not the root, is a child of the node at
\* position (i - 1) div k
CompleteShapeAt(storage, data, k, i) ==
    /\ InRange(storage, i)
    /\ At(storage, i).data = At(data, i)
    /\ At(storage, i).child_count <= k
    /\ At(storage, i).child_count
         = Cardinality({j \in 1..(Len(data) - 1) : (j - 1) \div k = i})
    /\ i > 0 => At(storage, i).parent_idx = (i - 1) \div k

\* C15: after height balancing with factor k every node has at most k
\* children and the shape is the complete left-filled k-ary tree over the
\* collected payload list: the first payload is the root and the node at
\* breadth-first position i > 0 is a child of the node at (i - 1) div k.
C15_CompleteKaryShape ==
    (h_call.op = "balance_tree_hybrid" /\ h_call.total_size > 1) =>
        LET data == all_data(h_call.array_storage, h_call.array_node_count,
                             h_call.pointer_roots)
        IN  /\ h_pointer_roots = <<>>
            /\ Len(h_array_storage) = Len(data)
            /\ \A i \in 0..(Len(data) - 1) :
                 CompleteShapeAt(h_array_storage, data,
                                 h_max_children_per_node, i)

\* C16: height balancing an empty tree or a single-node tree changes nothing:
\* size, depth and the root payload (if any) are the same before and after
\* the call.
C16_BalanceSmallTreeNoOp ==
    (h_call.op = "balance_tree_hybrid" /\ h_call.total_size <= 1) =>
        /\ h_total_size = h_call.total_size
        /\ calculate_max_depth(h_array_storage, h_array_node_count,
                               h_pointer_roots)
             = calculate_max_depth(h_call.array_storage,
                                   h_call.array_node_count,
                                   h_call.pointer_roots)
        /\ h_array_node_count = h_call.array_node_count
        /\ h_array_storage = h_call.array_storage
        /\ h_pointer_roots = h_call.pointer_roots

\* a single-node tree has been balanced
C16_Witness ==
    /\ h_call.op = "balance_tree_hybrid"
    /\ h_call.total_size = 1
    /\ h_total_size = 1
    /\ Len(h_array_storage) = 1
    /\ At(h_array_storage, 0).data \in Payloads

\* C17: height balancing with branching factor 0 fails with InvalidArgument
\* and leaves the tree (size, shape, payloads) unchanged.
C17_ZeroBranchingRejected ==
    (h_call.op = "balance_tree_hybrid" /\ h_max_children_per_node = 0) =>
        /\ h_call.error
        /\ h_total_size = h_call.total_size
        /\ h_array_storage = h_call.array_storage
        /\ h_array_node_count = h_call.array_node_count
        /\ h_pointer_roots = h_call.pointer_roots

\* the names of the nodes of the subtree of node, in preorder
RECURSIVE PreorderNames(_, _)
PreorderNames(nodes, node) ==
    <<At(nodes, node).name>>
      \o Flatten([k \in 1..Len(At(nodes, node).children) |->
                    PreorderNames(nodes, At(At(nodes, node).children, k - 1))])

\* C18: a successful succinct_encode_tree_kernel on a tree of n nodes leaves
\* the encoding with structure_bit_count == 2 * node_count and
\* data_count == node_count == n, data_array holding the n node names in
\* preorder.
C18_EncodingCounts ==
    (s_call.op = "succinct_encode_tree" /\ s_call.ret = 0) =>
        /\ s_call.structure_bit_count = 2 * s_call.node_count
        /\ s_call.data_count = s_call.node_count
        /\ s_call.node_count = Len(s_nodes)
        /\ s_call.data_array = PreorderNames(s_nodes, 0)

\* C19: structure bits are packed LSB-first, bit i in byte i div 8 at bit
\* position i mod 8: after set_bit_in_array(i, v) get_bit_from_array(i)
\* returns v, the byte i div 8 differs from what it was by the weight
\* 2^(i mod 8) of that one bit, every other bit and byte is unchanged, and
\* packing the bits read this way gives the same bytes.
C19_LsbFirstSetGet ==
    /\ b_call.op = "set_bit_in_array" =>
         LET i == b_call.bit_index
             v == b_call.value
             old == At(b_call.bits, i \div 8)
         IN  /\ get_bit_from_array(b_bits, i) = v
             /\ Len(b_bits) = Len(b_call.bits)
             /\ At(b_bits, i \div 8)
                  = old - Bit(old, i % 8) * 2 ^ (i % 8) + v * 2 ^ (i % 8)
             /\ \A k \in 1..Len(b_bits) :
                  k # (i \div 8) + 1 => b_bits[k] = b_call.bits[k]
             /\ \A j \in 0..(8 * Len(b_bits) - 1) :
                  j # i => get_bit_from_array(b_bits, j)
                             = get_bit_from_array(b_call.bits, j)
    /\ b_call.op = "pack_bits" => b_bits = b_call.bits

\* bit 11 of a buffer was clear and has been set: byte 1 gained the weight 8
C19_Witness ==
    /\ b_call.op = "set_bit_in_array"
    /\ b_call.bit_index = 11
    /\ b_call.value = 1
    /\ At(b_call.bits, 1) = 165
    /\ At(b_bits, 1) = 173
    /\ At(b_bits, 0) = At(b_call.bits, 0)

\* C20: an allocation failure while adding a child is recoverable: when
\* succinct_add_child returns -ENOMEM the parent's children array,
\* child_count and child_capacity and the child's parent link are as before
\* the call, and succinct_mknod then returns the error with the new node not
\* reachable from the tree (the nodes are those of before the call).
C20_AddChildNoMemRecoverable ==
    /\ \A dir \in 0..(Len(s_nodes) - 1) :
         LET allocated == Append(s_nodes, succinct_alloc_node(1))
             added == succinct_add_child(allocated, dir, Len(s_nodes), FALSE)
         IN  added.ret = 0 - ENOMEM => added.nodes = allocated
    /\ (s_call.op = "succinct_mknod"
        /\ s_call.failed = "succinct_add_child") =>
           /\ s_call.ret = 0 - ENOMEM
           /\ s_nodes = s_call.nodes
           /\ \A k \in 1..Len(s_nodes) :
                \A c \in 1..Len(s_nodes[k].children) :
                   s_nodes[k].children[c] < Len(s_nodes)

\* a directory holding INITIAL_CHILD_CAPACITY children has refused one more
C20_Witness ==
    /\ s_call.op = "succinct_mknod"
    /\ s_call.failed = "succinct_add_child"
    /\ s_call.ret = 0 - ENOMEM
    /\ \E k \in 1..Len(s_nodes) :
         /\ Len(s_nodes[k].children) = INITIAL_CHILD_CAPACITY
         /\ s_nodes[k].child_capacity = INITIAL_CHILD_CAPACITY

\* C21: across any sequence of construction, set_root, clear and deallocation
\* of a Python NaryTree object, every payload reference the binding acquired
\* is released exactly once: none is released twice, and none is still held
\* after the tree object is destroyed.
C21_ReferencesReleasedOnce ==
    \A o \in Payloads :
       /\ p_released[o] <= p_acquired[o]
       /\ p_state = "dead" => p_released[o] = p_acquired[o]

\* C22: in the append-only trees, after any sequence of add_child calls to
\* arbitrary parents, child(i) of a node, computed as index first_child + i
\* for i < child_count, is always a node whose parent is that node. Stated
\* over FocusedNaryTree::NodeRef::child.
C22_ChildIsOwnChild ==
    \A n \in 0..(Len(f_nodes) - 1) :
       At(f_nodes, n).is_valid =>
          \A i \in 0..(At(f_nodes, n).child_count - 1) :
             LET child_idx == At(f_nodes, n).first_child_index + i
             IN  /\ InRange(f_nodes, child_idx)
                 /\ At(f_nodes, child_idx).is_valid
                 /\ At(f_nodes, child_idx).parent_index = n

\* C23: in FocusedNaryTree an automatic re-layout runs on exactly the
\* add_child call that brings the number of insertions since the last
\* re-layout (automatic or forced by force_rebalance) to 100, and the counter
\* is reset to 0 by every re-layout, so after every call the counter is in
\* 0..99.
C23_RelayoutEveryThreshold ==
    /\ f_ops \in 0..(LAZY_BALANCE_THRESHOLD - 1)
    /\ f_call.op = "force_rebalance" =>
         /\ f_ops = 0
         /\ f_nodes = rebalance_for_locality(f_call.nodes, f_call.root_index)
    /\ f_call.op = "add_child" =>
         IF f_call.ops + 1 = LAZY_BALANCE_THRESHOLD
         THEN /\ f_ops = 0
              /\ Len(f_nodes) = Len(f_call.nodes) + 1
              /\ f_nodes = rebalance_for_locality(f_nodes, f_root_index)
         ELSE /\ f_ops = f_call.ops + 1
              /\ Len(f_nodes) = Len(f_call.nodes) + 1
              /\ \A k \in 1..Len(f_call.nodes) :
                   k # f_call.parent_index + 1 => f_nodes[k] = f_call.nodes[k]
              /\ At(f_nodes, Len(f_nodes) - 1).parent_index
                   = f_call.parent_index

\* the hundredth insertion since a forced re-layout has re-laid the tree out
\* and moved a node
C23_Witness ==
    /\ f_call.op = "add_child"
    /\ f_call.ops = LAZY_BALANCE_THRESHOLD - 1
    /\ f_ops = 0
    /\ Len(f_nodes) > LAZY_BALANCE_THRESHOLD + 1
    /\ SubSeq(f_nodes, 1, Len(f_call.nodes)) # f_call.nodes

\* the place of slot i in the tree: the ranks, among the children of each
\* ancestor in index order, on the way from the root to i
RECURSIVE NodePath(_, _)
NodePath(nodes, i) ==
    LET parent == At(nodes, i).parent_index
    IN  IF parent = -1 THEN <<>>
        ELSE LET siblings == ChildrenOf(nodes, parent)
             IN  Append(NodePath(nodes, parent),
                        CHOOSE k \in 1..Len(siblings) : siblings[k] = i)

\* C24: the handle returned by add_child always designates the node just
\* inserted (its payload is the given payload and its parent is the node
\* add_child was called on), including when that insertion triggers an
\* automatic re-layout that moves nodes. Stated over FocusedNaryTree.
C24_HandleDesignatesInserted ==
    f_call.op = "add_child" =>
        LET inserted == Append(f_call.nodes,
                               ArrayNode(f_call.child_data,
                                         f_call.parent_index))
            handle == f_call.result
        IN  /\ InRange(f_nodes, handle)
            /\ At(f_nodes, handle).is_valid
            /\ At(f_nodes, handle).data = f_call.child_data
            /\ NodePath(f_nodes, handle)
                 = NodePath(inserted, Len(inserted) - 1)

\* C25: in ArrayBasedNaryTree, after any sequence of add_child and
\* optimize_layout calls, size() equals the number of valid nodes reachable
\* from the root, which equals the number of valid slots in the backing
\* array.
C25_SizeCountsValidNodes ==
    ~a_aborted =>
        /\ a_size = Len(LevelOrder(a_nodes, <<a_root_index>>))
        /\ a_size = ValidCount(a_nodes)

\* C26: succinct_encode_tree_kernel never writes outside the buffers it
\* allocated: no encode call ends in a store past an allocation that faults,
\* and in every call that returns the data indices written are below the
\* allocated length of data_array (node_count entries) and the bit indices set
\* are below 8 times the allocated byte length of structure_bits.
C26_EncodeWithinBuffers ==
    /\ ~s_oops
    /\ (s_call.op = "succinct_encode_tree" /\ s_call.ret = 0) =>
          /\ s_call.data_count <= s_call.node_count
          /\ s_call.structure_bit_count
                <= 8 * ((s_call.node_count * 2 + 1 + 7) \div 8)

\* C27: in a HybridArrayNaryTree built with array_levels >= 1, after any
\* sequence of add_child_optimized, set_root, clear and balance_tree_hybrid
\* calls, array_node_count is the length of the array storage and at most
\* calculate_array_capacity(), every array node has a depth below array_levels
\* that is its parent's depth plus one, and size() >= array_size().
C27_ArrayPortionWellFormed ==
    /\ h_array_node_count = Len(h_array_storage)
    /\ h_array_node_count
         <= calculate_array_capacity(h_array_levels, h_max_children_per_node)
    /\ \A i \in 0..(Len(h_array_storage) - 1) :
         LET node == At(h_array_storage, i)
         IN  /\ node.depth < h_array_levels
             /\ node.parent_idx # INVALID_INDEX =>
                   /\ node.parent_idx \in 0..(Len(h_array_storage) - 1)
                   /\ node.depth = At(h_array_storage, node.parent_idx).depth + 1
             /\ node.parent_idx = INVALID_INDEX => node.depth = 0
    /\ h_total_size >= h_array_node_count

\* a full array portion of three levels under a pointer portion, left by a
\* call of add_child_optimized
C27_Witness ==
    /\ h_call.op = "add_child_optimized"
    /\ ~h_call.error
    /\ h_array_node_count
         = calculate_array_capacity(h_array_levels, h_max_children_per_node)
    /\ \E i \in 1..Len(h_array_storage) : h_array_storage[i].depth = 2
    /\ h_total_size > h_array_node_count

\* the set of the elements of a sequence
Range(s) == {s[i] : i \in DOMAIN s}

\* the point lies inside the box, boundaries included
Inside(box, point) ==
    /\ box.min_x <= point.x /\ point.x <= box.max_x
    /\ box.min_y <= point.y /\ point.y <= box.max_y
    /\ box.min_z <= point.z /\ point.z <= box.max_z

\* C28: Octree::insert returns false and leaves the octree unchanged when the
\* point lies outside the root bounds; otherwise it returns true, size() grows
\* by exactly one and the points stored are those stored before and the new
\* one, none lost and none twice.
C28_InsertOutcome ==
    o_call.op = "insert" =>
        IF ~Inside(o_call.root.bounds, o_call.point)
        THEN /\ o_call.ret = "false"
             /\ o_root = o_call.root
        ELSE /\ o_call.ret = "true"
             /\ octree_size(o_root) = octree_size(o_call.root) + 1
             /\ Range(stored_points(o_root))
                  = Range(stored_points(o_call.root)) \cup {o_call.point}
             /\ Len(stored_points(o_root))
                  = Cardinality(Range(stored_points(o_root)))

\* C29: Octree::query(range) returns exactly the inserted points that lie
\* inside the range, boundaries included, each exactly once, whatever inserts
\* and subdivisions built the octree.
C29_QueryExact ==
    o_call.op = "query" =>
        /\ Range(o_call.result)
             = {point \in Range(o_inserted) : Inside(o_call.range, point)}
        /\ Len(o_call.result) = Cardinality(Range(o_call.result))

\* a query over an octree subdivided twice that returns several points, one
\* of them on the boundary of the range, and leaves an inserted point out
C29_Witness ==
    /\ o_call.op = "query"
    /\ getDepth(o_root) = MaxDepth
    /\ Len(o_call.result) >= 3
    /\ \E point \in Range(o_call.result) : point.x = o_call.range.max_x
    /\ Len(o_call.result) < Len(o_inserted)

\* C30: under any interleaving of concurrent succinct_get_inode calls on one
\* superblock the inode numbers handed out are pairwise distinct, strictly
\* increasing in the order the lock was taken, and never the root's number 1.
C30_InodeNumbersUnique ==
    /\ \A j, k \in DOMAIN i_handed :
         j < k => i_handed[j] < i_handed[k]
    /\ \A j \in DOMAIN i_handed : i_handed[j] # 1

\* two numbers were handed out and a thread is waiting for the lock that
\* another thread holds between its load and its store
C30_Witness ==
    /\ Len(i_handed) >= 2
    /\ \E t, u \in Threads :
         /\ i_pc[t] = "spin_lock"
         /\ i_pc[u] = "store"
         /\ i_lock = u

=============================================================================
